---- MODULE Spec2Model ----
(***************************************************************************)
(* Model of the MilashkaAI RAG backend: the graph build of a document      *)
(* (server/app/core/rag_builder.py), the Kuzu client and its schema        *)
(* (server/app/db/kuzudb_client.py) and the document handlers              *)
(* (server/app/routers/documents.py, server/app/core/processing.py).       *)
(*                                                                         *)
(* The graph store is modelled by what the handlers rely on: typed node    *)
(* tables with a primary key (a CREATE of an existing key raises), typed   *)
(* relationship tables, MATCH ... CREATE that creates an edge only for     *)
(* matched endpoints, MERGE, SET and DETACH DELETE.  A statement that      *)
(* names a table or a property the schema lacks raises when it is bound.   *)
(* Every statement is its own transaction, as in the code (no explicit     *)
(* transaction is opened anywhere).                                        *)
(*                                                                         *)
(* All handlers are coroutines on one event loop and none of them awaits   *)
(* anything that suspends, so a handler runs to its end before the next    *)
(* starts; the variable run holds the handler in flight and its position.  *)
(***************************************************************************)
EXTENDS Integers, Sequences, FiniteSets, TLC

\* ------------------------------------------------------------------ bounds

\* Number of handler invocations explored in one behaviour.
MaxOps == 3

\* Number of failures of a collaborator (text extraction, language
\* pipeline, embedding model, store) injected in one behaviour.
MaxFaults == 1

\* ------------------------------------------------------- schema constants

DOCUMENT_TABLE == "Document"
CHUNK_TABLE == "Chunk"
REQUIREMENT_TABLE == "Requirement"
ENTITY_TABLE == "Entity"
ACTOR_TABLE == "Actor"
ACTION_TABLE == "Action"
OBJECT_TABLE == "Object"
RESULT_TABLE == "Result"
PROJECT_ENTITY_TABLE == "ProjectEntity"
USER_INTERACTION_TABLE == "UserInteraction"

CONTAINS_RELATIONSHIP == "Contains"
DESCRIBED_BY_RELATIONSHIP == "DescribedBy"
REFERENCES_RELATIONSHIP == "References"
PERFORMS_RELATIONSHIP == "Performs"
COMMITS_RELATIONSHIP == "Commits"
ON_WHAT_PERFORMED_RELATIONSHIP == "On_what_performed"
EXPECTS_RELATIONSHIP == "Expects"
DEPENDS_ON_RELATIONSHIP == "Depends_on"
RELATES_TO_RELATIONSHIP == "Relates_to"
DESCRIBED_IN_RELATIONSHIP == "Described_in"
LINKED_TO_FEEDBACK_RELATIONSHIP == "Linked_to_feedback"

\* The Document table's optional column, as a schema element.
DOCUMENT_ERROR_PROPERTY == "Document.error"

NodeQ(name) == [kind |-> "node", name |-> name, from |-> name, to |-> name]
RelQ(name, from, to) == [kind |-> "rel", name |-> name, from |-> from, to |-> to]

\* The statements connect() runs, in its order.  The Document table it
\* creates has no error column; no Chunk, Entity or References table is
\* created by it.
schema_queries ==
    << NodeQ(ACTOR_TABLE), NodeQ(ACTION_TABLE), NodeQ(OBJECT_TABLE),
       NodeQ(RESULT_TABLE), NodeQ(PROJECT_ENTITY_TABLE), NodeQ(DOCUMENT_TABLE),
       NodeQ(USER_INTERACTION_TABLE), NodeQ(REQUIREMENT_TABLE),
       RelQ(PERFORMS_RELATIONSHIP, REQUIREMENT_TABLE, ACTOR_TABLE),
       RelQ(COMMITS_RELATIONSHIP, REQUIREMENT_TABLE, ACTION_TABLE),
       RelQ(ON_WHAT_PERFORMED_RELATIONSHIP, REQUIREMENT_TABLE, OBJECT_TABLE),
       RelQ(EXPECTS_RELATIONSHIP, REQUIREMENT_TABLE, RESULT_TABLE),
       RelQ(DEPENDS_ON_RELATIONSHIP, REQUIREMENT_TABLE, REQUIREMENT_TABLE),
       RelQ(RELATES_TO_RELATIONSHIP, REQUIREMENT_TABLE, PROJECT_ENTITY_TABLE),
       RelQ(DESCRIBED_IN_RELATIONSHIP, REQUIREMENT_TABLE, DOCUMENT_TABLE),
       RelQ(LINKED_TO_FEEDBACK_RELATIONSHIP, REQUIREMENT_TABLE, USER_INTERACTION_TABLE),
       RelQ(CONTAINS_RELATIONSHIP, DOCUMENT_TABLE, CHUNK_TABLE),
       RelQ(DESCRIBED_BY_RELATIONSHIP, REQUIREMENT_TABLE, CHUNK_TABLE) >>

\* One CREATE ... IF NOT EXISTS: a node table is added; a relationship table
\* needs both endpoint tables and raises without them.
RECURSIVE RunSchemaQueries(_, _)
RunSchemaQueries(qs, s) ==
    IF qs = << >> THEN [schema |-> s, ok |-> TRUE]
    ELSE LET q == Head(qs) IN
         IF q.kind = "node" THEN RunSchemaQueries(Tail(qs), s \cup {q.name})
         ELSE IF q.from \in s /\ q.to \in s
              THEN RunSchemaQueries(Tail(qs), s \cup {q.name})
              ELSE [schema |-> s, ok |-> FALSE]

\* KuzuDBClient.connect on a client that has no database handle yet: the
\* handle and the connection are set first, then the schema statements run;
\* the first failing one is re-raised, what ran before it stays.
connect(s) == RunSchemaQueries(schema_queries, s)

\* What the database directory at KUZUDB_PATH may hold when the process
\* starts: nothing (it was never opened); the tables the build writes and
\* connect() does not create; those and the Document table's error column.
InitialSchemas ==
    { {},
      {DOCUMENT_TABLE, CHUNK_TABLE, ENTITY_TABLE, REFERENCES_RELATIONSHIP},
      {DOCUMENT_TABLE, CHUNK_TABLE, ENTITY_TABLE, REFERENCES_RELATIONSHIP,
       DOCUMENT_ERROR_PROPERTY} }

\* ------------------------------------------------------------ documents

\* doc_id values (uuid4 strings in the code): two documents.
DocIds == {1, 2}

\* A text is described by what the language pipeline makes of it: whether
\* it is empty or whitespace only, its structural elements in order, and the
\* number of named entities found in the whole text.  An element has the
\* type the chunker assigns, whether it has fewer than five words, whether
\* it starts with a list marker, and its sentences; a sentence has whether
\* it holds a modal verb, whether it starts with a list marker, and the
\* dependency roles of its tokens in order.  (The pieces of an oversized
\* paragraph are elements of their own.)
SReq(toks) == [req |-> TRUE, listmark |-> FALSE, toks |-> toks]
SMarked == [req |-> FALSE, listmark |-> TRUE, toks |-> <<"root", "dobj", "other">>]
SPlain == [req |-> FALSE, listmark |-> FALSE, toks |-> <<"nsubj", "root">>]

Header == [type |-> "header", short |-> TRUE, prefix |-> TRUE, sents |-> <<SPlain>>]
ListItem == [type |-> "list_item", short |-> FALSE, prefix |-> FALSE,
             sents |-> <<SReq(<<"nsubj", "nsubj", "prep">>)>>]
Para == [type |-> "paragraph", short |-> FALSE, prefix |-> FALSE,
         sents |-> <<SPlain, SMarked>>]
ShortPara == [type |-> "paragraph", short |-> TRUE, prefix |-> FALSE, sents |-> <<SPlain>>]

\* lang is what detect(text) gives the build: "en" when detection fails.
TBlank == [blank |-> TRUE, elements |-> << >>, ents |-> 0, lang |-> "en"]
TNote == [blank |-> FALSE, elements |-> <<ShortPara>>, ents |-> 0, lang |-> "ru"]
TDoc == [blank |-> FALSE, elements |-> <<Header, ListItem, ShortPara, Para>>, ents |-> 1,
         lang |-> "en"]

\* The contents an uploaded file can have: nothing but whitespace; a few
\* Russian words without a named entity; an English document with a heading,
\* a list item, a short line and a paragraph, and one named entity.
Texts == {TBlank, TNote, TDoc}

\* The files uploaded: each text as a plain-text file, and a PDF without
\* text (a scan).
Uploads ==
    {[text |-> t, pdf |-> FALSE] : t \in Texts} \cup {[text |-> TBlank, pdf |-> TRUE]}

\* nlp = nlp_en if lang == "en" else nlp_ru
SelectPipeline(text) == IF text.lang = "en" THEN "nlp_en" ELSE "nlp_ru"

\* ------------------------------------------------------------- chunking

KeepChunk(e) == ~(e.short /\ e.type \notin {"list_item", "header"})

\* chunk_text: the elements of the text, without those of fewer than five
\* words that are neither list items nor headers.
chunk_text(text) == SelectSeq(text.elements, KeepChunk)

\* ----------------------------------------------------------- extraction

EmptyComponents ==
    [requirements |-> << >>, actors |-> 0, actions |-> 0, objects |-> 0,
     results |-> 0, entities |-> 0]

\* A requirement as extract_components builds it: its sequence number, the
\* index of its chunk, and for each role the id recorded under that key
\* (no element: the key is absent).
NewRequirement(n, chunk_idx) ==
    [n |-> n, chunk |-> chunk_idx, actor |-> {}, action |-> {}, object |-> {}, result |-> {}]

\* The token loop: every matching token appends a role node; the
\* requirement's key is overwritten with the id of the latest one.
RECURSIVE ExtractRoles(_, _, _)
ExtractRoles(toks, c, r) ==
    IF toks = << >> THEN [c |-> c, r |-> r]
    ELSE LET t == Head(toks) IN
         IF t = "nsubj"
         THEN ExtractRoles(Tail(toks), [c EXCEPT !.actors = @ + 1], [r EXCEPT !.actor = {c.actors}])
         ELSE IF t = "root"
         THEN ExtractRoles(Tail(toks), [c EXCEPT !.actions = @ + 1], [r EXCEPT !.action = {c.actions}])
         ELSE IF t = "dobj"
         THEN ExtractRoles(Tail(toks), [c EXCEPT !.objects = @ + 1], [r EXCEPT !.object = {c.objects}])
         ELSE IF t = "prep"
         THEN ExtractRoles(Tail(toks), [c EXCEPT !.results = @ + 1], [r EXCEPT !.result = {c.results}])
         ELSE ExtractRoles(Tail(toks), c, r)

\* A requirement found in chunk chunk_idx with the given tokens: it is
\* appended with the next sequence number, then its roles are extracted.
AddRequirement(c, chunk_idx, toks) ==
    LET r0 == NewRequirement(Len(c.requirements), chunk_idx)
        x == ExtractRoles(toks, c, r0)
    IN [x.c EXCEPT !.requirements = Append(c.requirements, x.r)]

RECURSIVE AllTokens(_)
AllTokens(sents) ==
    IF sents = << >> THEN << >> ELSE Head(sents).toks \o AllTokens(Tail(sents))

RECURSIVE ExtractSentences(_, _, _)
ExtractSentences(sents, c, chunk_idx) ==
    IF sents = << >> THEN c
    ELSE LET s == Head(sents) IN
         ExtractSentences(Tail(sents),
                          IF s.req \/ s.listmark THEN AddRequirement(c, chunk_idx, s.toks) ELSE c,
                          chunk_idx)

\* The chunk loop of extract_components, from chunk index i (0-based, as
\* enumerate gives it) on.
RECURSIVE ExtractChunks(_, _, _)
ExtractChunks(chunks, i, c) ==
    IF i >= Len(chunks) THEN c
    ELSE LET ch == chunks[i + 1] IN
         IF ch.type = "header" THEN ExtractChunks(chunks, i + 1, c)
         ELSE IF ch.type = "list_item" \/ ch.prefix
         THEN ExtractChunks(chunks, i + 1,
                  IF (\E k \in 1..Len(ch.sents) : ch.sents[k].req) \/ ch.prefix
                  THEN AddRequirement(c, i, AllTokens(ch.sents)) ELSE c)
         ELSE IF ch.type = "paragraph"
         THEN ExtractChunks(chunks, i + 1, ExtractSentences(ch.sents, c, i))
         ELSE ExtractChunks(chunks, i + 1, c)

extract_components(text, chunks_with_info) ==
    [ExtractChunks(chunks_with_info, 0, EmptyComponents) EXCEPT !.entities = text.ents]

\* ---------------------------------------------------------- graph store

\* A node other than a Document, by its table and primary key: the keys the
\* build makes are {doc_id}_chunk_{i}, req_{doc_id}_{n}, actor_{doc_id}_{n},
\* ... and ent_{doc_id}_{n}.  A Document is <<Document, doc_id, 0>>.
NodeRef(table, d, n) == <<table, d, n>>
DocRef(d) == NodeRef(DOCUMENT_TABLE, d, 0)

NoDocument == [present |-> FALSE, status |-> "", error |-> ""]

\* A store: the schema, the Document nodes by doc_id (status and error as
\* stored, "" for null), the nodes of the other tables, the doc_id property
\* of every Chunk node, and the edges <<relationship, from, to>>.
NodeExists(st, ref) ==
    IF ref[1] = DOCUMENT_TABLE THEN st.Document[ref[2]].present ELSE ref \in st.nodes

\* ------------------------------------------------- the build's statements

MergeDoc == [op |-> "MERGE_DOC", table |-> DOCUMENT_TABLE, from |-> <<"", 0, 0>>, to |-> <<"", 0, 0>>]
SetIndexed == [op |-> "SET_INDEXED", table |-> DOCUMENT_TABLE, from |-> <<"", 0, 0>>, to |-> <<"", 0, 0>>]
CreateNode(ref) == [op |-> "CREATE", table |-> ref[1], from |-> ref, to |-> ref]
CreateRel(rel, from, to) == [op |-> "CREATE_REL", table |-> rel, from |-> from, to |-> to]

\* The chunks persisted under ids counted from 1.
RECURSIVE ChunkStatements_FromOne(_, _, _)
ChunkStatements_FromOne(d, i, n) ==
    IF i >= n THEN << >>
    ELSE << CreateNode(NodeRef(CHUNK_TABLE, d, i + 1)),
            CreateRel(CONTAINS_RELATIONSHIP, DocRef(d), NodeRef(CHUNK_TABLE, d, i + 1)) >>
         \o ChunkStatements_FromOne(d, i + 1, n)

\* for i, chunk in enumerate(chunks_with_info): CREATE the Chunk, then its
\* Contains edge from the Document.
RECURSIVE ChunkStatements(_, _, _)
ChunkStatements(d, i, n) ==
    IF i >= n THEN << >>
    ELSE << CreateNode(NodeRef(CHUNK_TABLE, d, i)),
            CreateRel(CONTAINS_RELATIONSHIP, DocRef(d), NodeRef(CHUNK_TABLE, d, i)) >>
         \o ChunkStatements(d, i + 1, n)

\* for x in components[...]: CREATE the node.
RECURSIVE NodeStatements(_, _, _, _)
NodeStatements(table, d, i, n) ==
    IF i >= n THEN << >>
    ELSE <<CreateNode(NodeRef(table, d, i))>> \o NodeStatements(table, d, i + 1, n)

RoleEdge(rel, table, d, r, ids) ==
    IF ids = {} THEN << >>
    ELSE <<CreateRel(rel, NodeRef(REQUIREMENT_TABLE, d, r.n),
                     NodeRef(table, d, CHOOSE k \in ids : TRUE))>>

\* A requirement written without its References edge to the Document.
RequirementStatements_NoReferences(d, r) ==
    <<CreateNode(NodeRef(REQUIREMENT_TABLE, d, r.n))>>
    \o RoleEdge(PERFORMS_RELATIONSHIP, ACTOR_TABLE, d, r, r.actor)
    \o RoleEdge(COMMITS_RELATIONSHIP, ACTION_TABLE, d, r, r.action)
    \o RoleEdge(ON_WHAT_PERFORMED_RELATIONSHIP, OBJECT_TABLE, d, r, r.object)
    \o RoleEdge(EXPECTS_RELATIONSHIP, RESULT_TABLE, d, r, r.result)
    \o <<CreateRel(DESCRIBED_BY_RELATIONSHIP, NodeRef(REQUIREMENT_TABLE, d, r.n),
                   NodeRef(CHUNK_TABLE, d, r.chunk))>>

\* One requirement: CREATE it, then the edge of every role key it has, its
\* DescribedBy edge (the chunk_id key is always set) and its References edge.
RequirementStatements(d, r) ==
    <<CreateNode(NodeRef(REQUIREMENT_TABLE, d, r.n))>>
    \o RoleEdge(PERFORMS_RELATIONSHIP, ACTOR_TABLE, d, r, r.actor)
    \o RoleEdge(COMMITS_RELATIONSHIP, ACTION_TABLE, d, r, r.action)
    \o RoleEdge(ON_WHAT_PERFORMED_RELATIONSHIP, OBJECT_TABLE, d, r, r.object)
    \o RoleEdge(EXPECTS_RELATIONSHIP, RESULT_TABLE, d, r, r.result)
    \o <<CreateRel(DESCRIBED_BY_RELATIONSHIP, NodeRef(REQUIREMENT_TABLE, d, r.n),
                   NodeRef(CHUNK_TABLE, d, r.chunk))>>
    \o <<CreateRel(REFERENCES_RELATIONSHIP, NodeRef(REQUIREMENT_TABLE, d, r.n), DocRef(d))>>

RECURSIVE AllRequirementStatements(_, _)
AllRequirementStatements(d, reqs) ==
    IF reqs = << >> THEN << >>
    ELSE RequirementStatements(d, Head(reqs)) \o AllRequirementStatements(d, Tail(reqs))

\* The build with the requirements (and their edges) written before the
\* role nodes their edges point to.
BuildStatements_RequirementsFirst(d, text) ==
    LET chunks == chunk_text(text)
        c == extract_components(text, chunks)
    IN <<MergeDoc>>
       \o ChunkStatements(d, 0, Len(chunks))
       \o AllRequirementStatements(d, c.requirements)
       \o NodeStatements(ACTOR_TABLE, d, 0, c.actors)
       \o NodeStatements(ACTION_TABLE, d, 0, c.actions)
       \o NodeStatements(OBJECT_TABLE, d, 0, c.objects)
       \o NodeStatements(RESULT_TABLE, d, 0, c.results)
       \o NodeStatements(ENTITY_TABLE, d, 0, c.entities)
       \o <<SetIndexed>>

\* The statements build_rag_graph_from_text sends to the store, in order.
BuildStatements(d, text) ==
    LET chunks == chunk_text(text)
        c == extract_components(text, chunks)
    IN <<MergeDoc>>
       \o ChunkStatements(d, 0, Len(chunks))
       \o NodeStatements(ACTOR_TABLE, d, 0, c.actors)
       \o NodeStatements(ACTION_TABLE, d, 0, c.actions)
       \o NodeStatements(OBJECT_TABLE, d, 0, c.objects)
       \o NodeStatements(RESULT_TABLE, d, 0, c.results)
       \o NodeStatements(ENTITY_TABLE, d, 0, c.entities)
       \o AllRequirementStatements(d, c.requirements)
       \o <<SetIndexed>>

\* ------------------------------------------------- executing a statement

Raise(st, msg) == [st |-> st, raised |-> TRUE, msg |-> msg]
Done(st) == [st |-> st, raised |-> FALSE, msg |-> ""]

\* MERGE (d:Document {doc_id}) ON CREATE SET ... ON MATCH SET ...: status
\* becomes processing; neither branch sets the error property.
ExecMergeDoc(st, d) ==
    Done([st EXCEPT !.Document[d] = [present |-> TRUE, status |-> "processing",
                                     error |-> st.Document[d].error]])

\* CREATE of a node: the table must exist and the primary key must be new.
ExecCreateNode(st, d, ref) ==
    IF ref[1] \notin st.schema THEN Raise(st, "table does not exist")
    ELSE IF ref \in st.nodes THEN Raise(st, "duplicated primary key")
    ELSE Done([st EXCEPT !.nodes = @ \cup {ref},
                         !.chunk_doc_id = IF ref[1] = CHUNK_TABLE
                                          THEN [x \in DOMAIN @ \cup {ref} |->
                                                   IF x = ref THEN d ELSE @[x]]
                                          ELSE @])

\* MATCH (a), (b) CREATE (a)-[:rel]->(b): an edge for the matched pair, no
\* edge when either is not matched.
ExecCreateRel(st, rel, from, to) ==
    IF rel \notin st.schema THEN Raise(st, "table does not exist")
    ELSE IF NodeExists(st, from) /\ NodeExists(st, to)
    THEN Done([st EXCEPT !.edges = @ \cup {<<rel, from, to>>}])
    ELSE Done(st)

\* The status set on every Document, whatever its doc_id.
ExecSetIndexed_AllDocuments(st, d) ==
    Done([st EXCEPT !.Document =
             [x \in DocIds |-> IF st.Document[x].present
                               THEN [st.Document[x] EXCEPT !.status = "indexed"]
                               ELSE st.Document[x]]])

\* MATCH (d:Document {doc_id}) SET d.status = 'indexed'.
ExecSetIndexed(st, d) ==
    IF st.Document[d].present
    THEN Done([st EXCEPT !.Document[d].status = "indexed"])
    ELSE Done(st)

Execute(st, d, stmt) ==
    IF stmt.op = "MERGE_DOC" THEN ExecMergeDoc(st, d)
    ELSE IF stmt.op = "CREATE" THEN ExecCreateNode(st, d, stmt.from)
    ELSE IF stmt.op = "CREATE_REL" THEN ExecCreateRel(st, stmt.table, stmt.from, stmt.to)
    ELSE ExecSetIndexed(st, d)

\* The except branch of build_rag_graph_from_text:
\* MATCH (d:Document {doc_id}) SET d.status = 'error', d.error = str(e).
\* Binding d.error raises when the Document table has no such column.
ExecSetError(st, d, msg) ==
    IF DOCUMENT_ERROR_PROPERTY \notin st.schema THEN Raise(st, "cannot find property error")
    ELSE IF st.Document[d].present
    THEN Done([st EXCEPT !.Document[d].status = "error", !.Document[d].error = msg])
    ELSE Done(st)

\* Everything attached to a node goes with it.
Detach(edges, gone) == {e \in edges : e[2] \notin gone /\ e[3] \notin gone}

\* reindex_document's delete step:
\* MATCH (d:Document {doc_id}) OPTIONAL MATCH (d)-[r]-() DETACH DELETE d.
ExecReindexDelete(st, d) ==
    IF st.Document[d].present
    THEN Done([st EXCEPT !.Document[d] = NoDocument,
                         !.edges = Detach(@, {DocRef(d)})])
    ELSE Done(st)

\* delete_document's delete step:
\* MATCH (d:Document {doc_id}) OPTIONAL MATCH (d)-[:Contains]->(c:Chunk)
\* DETACH DELETE d, c.
ExecDeleteDocument(st, d) ==
    IF st.Document[d].present
    THEN LET cs == {e[3] : e \in {x \in st.edges :
                                    x[1] = CONTAINS_RELATIONSHIP /\ x[2] = DocRef(d)}}
         IN Done([st EXCEPT !.Document[d] = NoDocument,
                            !.nodes = @ \ cs,
                            !.chunk_doc_id = [x \in DOMAIN @ \ cs |-> @[x]],
                            !.edges = Detach(@, cs \cup {DocRef(d)})])
    ELSE Done(st)

\* reindex_document's empty-text branch:
\* MERGE (d:Document {doc_id}) ... SET d.status = 'error', d.error = '...'.
ExecMergeError(st, d) ==
    IF DOCUMENT_ERROR_PROPERTY \notin st.schema THEN Raise(st, "cannot find property error")
    ELSE Done([st EXCEPT !.Document[d] = [present |-> TRUE, status |-> "error",
                                          error |-> "No text content found"]])

\* ---------------------------------------------------------------- state

VARIABLES
    schema,        \* tables (and the Document.error column) of the database
    Document,      \* doc_id -> the Document node, or NoDocument
    nodes,         \* the nodes of the other tables
    chunk_doc_id,  \* Chunk node -> its doc_id property
    edges,         \* <<relationship, from, to>>
    file,          \* doc_id -> the uploaded file in UPLOADS_PATH, if any
    issued,        \* doc_ids upload_document has generated
    run,           \* the handler in flight and its position
    last,          \* the latest handler, once finished, and how it ended
    nops,          \* handlers started so far
    nfaults,       \* collaborator failures so far
    written,       \* status values the latest handler wrote, in order
    rel_inserts,   \* <<relationship, from matched, to matched>> of its edge statements
    created,       \* nodes its build created
    had_refs,      \* Requirements that referenced the Document at its delete step
    nlp,           \* the module-level nlp of rag_builder: "none", "nlp_en" or "nlp_ru"
    embedding,     \* Chunk node -> its embedding property (a vector)
    call,          \* the retrieval or completion call in flight and its position
    result,        \* what the latest retrieve_relevant_chunks returned
    done,          \* the latest retrieval or completion call, once finished
    opened,        \* connections that call opened itself and has not closed
    prev_key,      \* (query, top_k, filter_doc_id) of the retrieval before it
    extraction,    \* a text under analysis on its own, and what the analysis gave
    chunking,      \* a chunk_text call on a text given character by character
    pool,          \* the WorkerPoolManager instance
    stream         \* the streaming subprocesses and current_stream_proc

store_vars == <<schema, Document, nodes, chunk_doc_id, edges>>
build_vars == <<file, issued, run, last, nops, written, rel_inserts, created, had_refs, nlp>>
retrieval_vars == <<embedding, call, result, done, opened, prev_key>>
unit_vars == <<extraction, chunking, pool, stream>>
vars == <<schema, Document, nodes, chunk_doc_id, edges, file, issued, run, last, nops,
          nfaults, written, rel_inserts, created, had_refs, nlp, embedding, call, result,
          done, opened, prev_key, extraction, chunking, pool, stream>>

Store == [schema |-> schema, Document |-> Document, nodes |-> nodes,
          chunk_doc_id |-> chunk_doc_id, edges |-> edges]

SetStore(st) ==
    /\ schema' = st.schema
    /\ Document' = st.Document
    /\ nodes' = st.nodes
    /\ chunk_doc_id' = st.chunk_doc_id
    /\ edges' = st.edges

NoFile == [exists |-> FALSE, text |-> TBlank, pdf |-> FALSE]

Idle == [caller |-> "none", doc |-> 0, text |-> TBlank, pc |-> "idle", ip |-> 0,
         close_db |-> FALSE, exc |-> "", pre |-> "", faulted |-> FALSE]

NotFinished ==
    [op |-> "none", caller |-> "none", doc |-> 0, outcome |-> "none", pre |-> "",
     faulted |-> FALSE, text |-> TBlank, chunks_indexed |-> 0]

\* A finished handler: which, called by what, for which document, how it
\* ended, the status the Document had when it started, whether a
\* collaborator failed in it, the text it worked on, and the chunks_indexed
\* it returned.
Finished(op, d, outcome, r, n) ==
    [op |-> op, caller |-> r.caller, doc |-> d, outcome |-> outcome, pre |-> r.pre,
     faulted |-> r.faulted, text |-> r.text, chunks_indexed |-> n]

\* (r:Requirement)-[:References]->(d:Document {doc_id})
Referencing(d) ==
    {e[2] : e \in {x \in edges : x[1] = REFERENCES_RELATIONSHIP /\ x[3] = DocRef(d)}}

\* (d:Document {doc_id})-[:Contains]->(c:Chunk)
ContainedChunks(st, d) ==
    {e[3] : e \in {x \in st.edges : x[1] = CONTAINS_RELATIONSHIP /\ x[2] = DocRef(d)}}

\* filter_doc_id=None.
NoFilter == 0

\* No retrieval has been made yet.
NoKey == <<"", 0, NoFilter>>

\* No retrieval or completion call is in flight.
NoCall ==
    [op |-> "none", caller |-> "none", query |-> "", top_k |-> 0, filter |-> NoFilter,
     pc |-> "idle", close_db |-> FALSE, encoded |-> FALSE, repeat |-> FALSE,
     faulted |-> FALSE]

NotCalled == [op |-> "none", outcome |-> "none", faulted |-> FALSE]

\* No component is exercised on its own.
UnitsUnused ==
    /\ extraction = [pc |-> "none"]
    /\ chunking = [pc |-> "none"]
    /\ pool = [pc |-> "none"]
    /\ stream = [pc |-> "none"]

Init ==
    /\ UnitsUnused
    /\ embedding = << >>
    /\ call = NoCall
    /\ result = << >>
    /\ done = NotCalled
    /\ opened = 0
    /\ prev_key = NoKey
    /\ schema \in InitialSchemas
    /\ Document = [d \in DocIds |-> NoDocument]
    /\ nodes = {}
    /\ chunk_doc_id = << >>
    /\ edges = {}
    /\ file = [d \in DocIds |-> NoFile]
    /\ issued = {}
    /\ run = Idle
    /\ last = NotFinished
    /\ nops = 0
    /\ nfaults = 0
    /\ written = << >>
    /\ rel_inserts = {}
    /\ created = {}
    /\ had_refs = {}
    /\ nlp = "none"

CanStart == run.pc = "idle" /\ nops < MaxOps
CanFail == nfaults < MaxFaults

\* A collaborator fails (TRUE) or not (FALSE) in this step.
Fault(f) == nfaults' = IF f THEN nfaults + 1 ELSE nfaults

\* A handler starts; what is recorded about the previous one is dropped.
Begin ==
    /\ CanStart
    /\ nops' = nops + 1
    /\ written' = << >>
    /\ rel_inserts' = {}
    /\ created' = {}
    /\ had_refs' = {}

\* --------------------------------------------------------------- upload

\* uuid.uuid4(): an id no upload had before (which one is immaterial).
NewDocId(d) == d \notin issued /\ \A x \in DocIds \ issued : d <= x

\* upload_document: a new uuid, the file is saved as {doc_id}{ext} (pdf: the
\* extension is .pdf), the text is extracted
\* and the build is queued as a background task with db=None.  When the
\* extraction raises, the saved file is removed and the request fails.
upload_document(d, t, pdf, extracted) ==
    /\ UNCHANGED <<retrieval_vars, unit_vars>>
    /\ UNCHANGED nlp
    /\ Begin
    /\ NewDocId(d)
    /\ extracted \/ CanFail
    /\ Fault(~extracted)
    /\ issued' = issued \cup {d}
    /\ IF extracted
       THEN /\ file' = [file EXCEPT ![d] = [exists |-> TRUE, text |-> t, pdf |-> pdf]]
            /\ run' = [Idle EXCEPT !.caller = "upload", !.doc = d, !.text = t,
                                   !.pc = "connect", !.pre = Document[d].status]
            /\ last' = NotFinished
       ELSE /\ file' = file
            /\ run' = run
            /\ last' = Finished("upload_document", d, "http500",
                                [Idle EXCEPT !.text = t, !.faulted = TRUE], 0)
    /\ UNCHANGED store_vars

\* build_rag_graph_from_text invoked again for a document whose file is
\* there, with db=None and the text of the file (a retry by the caller).
retry_build(d) ==
    /\ UNCHANGED <<retrieval_vars, unit_vars>>
    /\ UNCHANGED nlp
    /\ Begin
    /\ file[d].exists
    /\ run' = [Idle EXCEPT !.caller = "retry", !.doc = d, !.text = file[d].text,
                           !.pc = "connect", !.pre = Document[d].status]
    /\ last' = NotFinished
    /\ UNCHANGED <<store_vars, file, issued, nfaults>>

\* process_uploaded_document: its first statement imports document_status_db
\* from app.routers.documents, which defines no such name; the ImportError
\* is raised before the try block, so no status is written.
process_uploaded_document(d) ==
    /\ UNCHANGED <<retrieval_vars, unit_vars>>
    /\ UNCHANGED nlp
    /\ Begin
    /\ last' = Finished("process_uploaded_document", d, "raised",
                        [Idle EXCEPT !.pre = Document[d].status], 0)
    /\ UNCHANGED <<store_vars, file, issued, run, nfaults>>

\* ---------------------------------------------------------------- build

\* The build is entered: the language of the text selects the module-level
\* nlp.  db is None: a client is made and connected; close_db is set only
\* after connect() returned.
BuildConnect ==
    /\ UNCHANGED <<retrieval_vars, unit_vars>>
    /\ run.pc = "connect"
    /\ nlp' = SelectPipeline(run.text)
    /\ LET c == connect(schema) IN
       /\ schema' = c.schema
       /\ run' = IF c.ok
                 THEN [run EXCEPT !.pc = "analyse", !.close_db = TRUE]
                 ELSE [run EXCEPT !.pc = "except", !.exc = "table does not exist"]
    /\ UNCHANGED <<Document, nodes, chunk_doc_id, edges, file, issued, last, nops, nfaults,
                   written, rel_inserts, created, had_refs>>

\* The stages before the first store statement, each of which can raise.
AnalysisStages == {"chunk_text", "encode", "extract_components"}

\* get_embedding_pipeline, chunk_text, encode, nlp and extract_components.
BuildAnalyse ==
    /\ UNCHANGED <<retrieval_vars, unit_vars>>
    /\ UNCHANGED nlp
    /\ run.pc = "analyse"
    /\ \E f \in AnalysisStages \cup {"none"} :
         /\ f = "none" \/ CanFail
         /\ Fault(f # "none")
         /\ run' = IF f = "none"
                   THEN [run EXCEPT !.pc = "exec", !.ip = 1]
                   ELSE [run EXCEPT !.pc = "except", !.exc = f, !.faulted = TRUE]
    /\ UNCHANGED <<store_vars, file, issued, last, nops, written, rel_inserts, created,
                   had_refs>>

StatusWritten(stmt) ==
    IF stmt.op = "MERGE_DOC" THEN <<"processing">>
    ELSE IF stmt.op = "SET_INDEXED" THEN <<"indexed">>
    ELSE << >>

\* The next conn.execute of the build.  The store can fail on any of them.
BuildExecute ==
    /\ UNCHANGED <<retrieval_vars, unit_vars>>
    /\ UNCHANGED nlp
    /\ run.pc = "exec"
    /\ LET prog == BuildStatements(run.doc, run.text)
           stmt == prog[run.ip]
           res == Execute(Store, run.doc, stmt)
       IN \E store_fault \in BOOLEAN :
            /\ ~store_fault \/ CanFail
            /\ Fault(store_fault)
            /\ IF store_fault
               THEN /\ run' = [run EXCEPT !.pc = "except", !.exc = "store failure",
                                          !.faulted = TRUE]
                    /\ UNCHANGED <<store_vars, written, rel_inserts, created>>
               ELSE IF res.raised
               THEN /\ run' = [run EXCEPT !.pc = "except", !.exc = res.msg]
                    /\ UNCHANGED <<store_vars, written, rel_inserts, created>>
               ELSE /\ SetStore(res.st)
                    /\ run' = IF run.ip = Len(prog)
                              THEN [run EXCEPT !.pc = "return"]
                              ELSE [run EXCEPT !.ip = @ + 1]
                    /\ written' = written \o StatusWritten(stmt)
                    /\ rel_inserts' =
                         IF stmt.op = "CREATE_REL"
                         THEN rel_inserts \cup {<<stmt.table, NodeExists(Store, stmt.from),
                                                  NodeExists(Store, stmt.to)>>}
                         ELSE rel_inserts
                    /\ created' = IF stmt.op = "CREATE" THEN created \cup {stmt.from}
                                  ELSE created
    /\ UNCHANGED <<file, issued, last, nops, had_refs>>

\* except Exception: db is not None (the client object exists even when
\* connect() raised), so the error status is written; then the finally
\* block, and the exception reaches the caller: the background task, or
\* reindex_document, which turns it into an HTTP 500.
BuildExcept ==
    /\ UNCHANGED <<retrieval_vars, unit_vars>>
    /\ UNCHANGED nlp
    /\ run.pc = "except"
    /\ LET res == ExecSetError(Store, run.doc, run.exc) IN
       /\ SetStore(res.st)
       /\ written' = IF ~res.raised /\ Document[run.doc].present
                     THEN Append(written, "error") ELSE written
    /\ last' = IF run.caller = "reindex"
               THEN Finished("reindex_document", run.doc, "http500", run, 0)
               ELSE Finished("build_rag_graph_from_text", run.doc, "raised", run, 0)
    /\ run' = Idle
    /\ UNCHANGED <<file, issued, nops, nfaults, rel_inserts, created, had_refs>>

\* The build returns: the finally block closes a client the build opened.
\* reindex_document goes on to count the chunks the Document contains.
BuildReturn ==
    /\ UNCHANGED <<retrieval_vars, unit_vars>>
    /\ UNCHANGED nlp
    /\ run.pc = "return"
    /\ last' = IF run.caller = "reindex"
               THEN Finished("reindex_document", run.doc, "ok", run,
                             Cardinality(ContainedChunks(Store, run.doc)))
               ELSE Finished("build_rag_graph_from_text", run.doc, "ok", run, 0)
    /\ run' = Idle
    /\ UNCHANGED <<store_vars, file, issued, nops, nfaults, written, rel_inserts, created,
                   had_refs>>

\* -------------------------------------------------------------- reindex

\* reindex_document(doc_id, db) with a KuzuDBClient: the filename query is
\* the client's first execute, which connects; whatever it raises is logged
\* and dropped.  Then the file is looked up; without one the call ends in a
\* 404 before anything is deleted.
reindex_document(d) ==
    /\ UNCHANGED <<retrieval_vars, unit_vars>>
    /\ UNCHANGED nlp
    /\ Begin
    /\ schema' = connect(schema).schema
    /\ IF file[d].exists
       THEN /\ run' = [Idle EXCEPT !.caller = "reindex", !.doc = d, !.text = file[d].text,
                                   !.pc = "delete", !.pre = Document[d].status]
            /\ last' = NotFinished
       ELSE /\ run' = run
            /\ last' = Finished("reindex_document", d, "http404",
                                [Idle EXCEPT !.pre = Document[d].status], 0)
    /\ UNCHANGED <<Document, nodes, chunk_doc_id, edges, file, issued, nfaults>>

\* The delete step of reindex_document.
ReindexDelete ==
    /\ UNCHANGED <<retrieval_vars, unit_vars>>
    /\ UNCHANGED nlp
    /\ run.pc = "delete"
    /\ \E store_fault \in BOOLEAN :
         /\ ~store_fault \/ CanFail
         /\ Fault(store_fault)
         /\ IF store_fault
            THEN /\ last' = Finished("reindex_document", run.doc, "http500",
                                     [run EXCEPT !.faulted = TRUE], 0)
                 /\ run' = Idle
                 /\ UNCHANGED <<store_vars, had_refs>>
            ELSE /\ SetStore(ExecReindexDelete(Store, run.doc).st)
                 /\ had_refs' = Referencing(run.doc)
                 /\ run' = [run EXCEPT !.pc = "extract"]
                 /\ UNCHANGED last
    /\ UNCHANGED <<file, issued, nops, written, rel_inserts, created>>

\* The file is opened and its text extracted.  A path ending in .pdf is
\* handed to the module-level nlp: None is not callable, and a pipeline ends
\* in its layout_parser component, which evaluates os.path.exists for such a
\* text in a module that does not import os; either way an exception, which
\* becomes a 500.  Any other file goes through extract_text_from_file.
\* Empty or whitespace-only text: the Document is merged with status error
\* and a zero-chunks result is returned.  Otherwise the build is entered
\* (the language of the text selects nlp) on the caller's client.
ReindexExtract ==
    /\ UNCHANGED <<retrieval_vars, unit_vars>>
    /\ run.pc = "extract"
    /\ IF file[run.doc].pdf
       THEN /\ last' = Finished("reindex_document", run.doc, "http500", run, 0)
            /\ run' = Idle
            /\ UNCHANGED <<store_vars, written, nfaults, nlp>>
       ELSE \E extracted \in BOOLEAN :
         /\ extracted \/ CanFail
         /\ Fault(~extracted)
         /\ IF ~extracted
            THEN /\ last' = Finished("reindex_document", run.doc, "http500",
                                     [run EXCEPT !.faulted = TRUE], 0)
                 /\ run' = Idle
                 /\ UNCHANGED <<store_vars, written, nlp>>
            ELSE IF run.text.blank
            THEN LET res == ExecMergeError(Store, run.doc) IN
                 /\ SetStore(res.st)
                 /\ written' = IF res.raised THEN written ELSE Append(written, "error")
                 /\ last' = Finished("reindex_document", run.doc,
                                     IF res.raised THEN "http500" ELSE "error_result", run, 0)
                 /\ run' = Idle
                 /\ nlp' = nlp
            ELSE /\ run' = [run EXCEPT !.pc = "analyse"]
                 /\ nlp' = SelectPipeline(run.text)
                 /\ UNCHANGED <<store_vars, written, last>>
    /\ UNCHANGED <<file, issued, nops, rel_inserts, created, had_refs>>

\* POST /reindex/{doc_id}: reindex_doc hands reindex_document the generator
\* get_db_connection() returns, not a client.  Every conn.execute raises
\* AttributeError: the filename query's is dropped, the file is looked up
\* (404 without one), the delete step's is turned into a 500; reindex_doc
\* turns either into a 500.  The store is not touched.
reindex_doc(d) ==
    /\ UNCHANGED <<retrieval_vars, unit_vars>>
    /\ UNCHANGED nlp
    /\ Begin
    /\ last' = Finished("reindex_doc", d, "http500",
                        [Idle EXCEPT !.pre = Document[d].status,
                                     !.exc = IF file[d].exists THEN "AttributeError"
                                             ELSE "404"], 0)
    /\ UNCHANGED <<store_vars, file, issued, run, nfaults>>

\* --------------------------------------------------------------- delete

\* DELETE /{doc_id}: get_db connects (a failure ends the request), the
\* filename is read, the Document and the chunks it contains are deleted,
\* and the file is removed when the Document gave its filename.
delete_document(d) ==
    /\ UNCHANGED <<retrieval_vars, unit_vars>>
    /\ UNCHANGED nlp
    /\ CanStart
    /\ nops' = nops + 1
    /\ written' = << >>
    /\ rel_inserts' = {}
    /\ created' = {}
    /\ LET c == connect(schema)
           st == [Store EXCEPT !.schema = c.schema]
           r == [Idle EXCEPT !.pre = Document[d].status]
       IN \E store_fault \in BOOLEAN :
            /\ ~store_fault \/ CanFail
            /\ Fault(store_fault)
            /\ IF ~c.ok \/ store_fault
               THEN /\ SetStore(st)
                    /\ last' = Finished("delete_document", d, "http500",
                                        [r EXCEPT !.faulted = store_fault], 0)
                    /\ had_refs' = {}
                    /\ file' = file
               ELSE /\ SetStore(ExecDeleteDocument(st, d).st)
                    /\ had_refs' = Referencing(d)
                    /\ file' = IF Document[d].present THEN [file EXCEPT ![d] = NoFile]
                               ELSE file
                    /\ last' = Finished("delete_document", d, "ok", r, 0)
    /\ UNCHANGED <<issued, run>>

RECURSIVE DeleteEach(_, _)
DeleteEach(st, ds) ==
    IF ds = {} THEN st
    ELSE LET d == CHOOSE x \in ds : TRUE IN
         DeleteEach(ExecDeleteDocument(st, d).st, ds \ {d})

\* delete_all_docs.py: the same statement for every Document, on a raw
\* connection (no schema statements are run first).
delete_all_documents ==
    /\ UNCHANGED <<retrieval_vars, unit_vars>>
    /\ UNCHANGED nlp
    /\ CanStart
    /\ nops' = nops + 1
    /\ written' = << >>
    /\ rel_inserts' = {}
    /\ created' = {}
    /\ IF {DOCUMENT_TABLE, CONTAINS_RELATIONSHIP, CHUNK_TABLE} \subseteq schema
       THEN /\ SetStore(DeleteEach(Store, DocIds))
            /\ had_refs' = UNION {Referencing(d) : d \in DocIds}
            /\ last' = Finished("delete_all_documents", 0, "ok", Idle, 0)
       ELSE /\ last' = Finished("delete_all_documents", 0, "raised", Idle, 0)
            /\ had_refs' = {}
            /\ UNCHANGED store_vars
    /\ UNCHANGED <<file, issued, run, nfaults>>

\* ----------------------------------------------------------------- spec

\* The document handlers: upload, build, reindex and delete.
Next ==
    \/ \E d \in DocIds, u \in Uploads, extracted \in BOOLEAN :
         upload_document(d, u.text, u.pdf, extracted)
    \/ \E d \in DocIds : retry_build(d)
    \/ \E d \in DocIds : process_uploaded_document(d)
    \/ BuildConnect
    \/ BuildAnalyse
    \/ BuildExecute
    \/ BuildExcept
    \/ BuildReturn
    \/ \E d \in DocIds : reindex_document(d)
    \/ ReindexDelete
    \/ ReindexExtract
    \/ \E d \in DocIds : reindex_doc(d)
    \/ \E d \in DocIds : delete_document(d)
    \/ delete_all_documents

Spec == Init /\ [][Next]_vars

\* --------------------------------------------------------------- claims

AtRest == run.pc = "idle"

\* Every table and column the build writes exists in the database.
FullSchema ==
    {CHUNK_TABLE, ENTITY_TABLE, REFERENCES_RELATIONSHIP, DOCUMENT_ERROR_PROPERTY} \subseteq schema

ChunksOf(d) == {n \in nodes : n[1] = CHUNK_TABLE /\ chunk_doc_id[n] = d}
RequirementsOf(d) == {n \in nodes : n[1] = REQUIREMENT_TABLE /\ n[2] = d}

\* The build raised to its caller.
BuildRaised == AtRest /\ last.op = "build_rag_graph_from_text" /\ last.outcome = "raised"

\* C1: whenever build_rag_graph_from_text ends by raising, the store holds
\* a Document for doc_id with status error and a non-null error message
\* (stated for a database that has every table and column).
C1_RaiseLeavesErrorDocument ==
    (BuildRaised /\ FullSchema) =>
        /\ Document[last.doc].present
        /\ Document[last.doc].status = "error"
        /\ Document[last.doc].error # ""

StatusRank(s) ==
    IF s = "received" THEN 0
    ELSE IF s = "extracting_text" THEN 1
    ELSE IF s = "building_rag" THEN 2
    ELSE IF s = "processing" THEN 3
    ELSE 4

\* The part of C2 about the order of the writes of one attempt: the stages
\* written never move backward, indexed is written only by an attempt in
\* which nothing raised, and nothing is written after error.
C2_WritesMoveForward ==
    /\ \A i, j \in DOMAIN written :
         (i < j /\ written[i] # "error" /\ written[j] # "error")
            => StatusRank(written[i]) <= StatusRank(written[j])
    /\ \A i \in DOMAIN written : written[i] = "error" => i = Len(written)
    /\ (\E i \in DOMAIN written : written[i] = "indexed")
         => (run.pc = "return" \/ (AtRest /\ last.outcome = "ok"))

\* C2: within one attempt the status values written never move backward
\* in received < extracting_text < building_rag < processing < indexed,
\* indexed is written only if no step raised, and an exception at any
\* stage leads to error, never to indexed (stated for a database that has
\* every table and column).
C2_StatusLifecycle ==
    /\ C2_WritesMoveForward
    /\ (BuildRaised /\ FullSchema) =>
         /\ Document[last.doc].status = "error"
         /\ \A i \in DOMAIN written : written[i] # "indexed"

\* C3: an upload whose extracted text is empty drives the Document to
\* status error with a non-null message, creates no Chunk for the doc_id
\* and never reaches indexed (stated for a database that has every table
\* and column, and with no collaborator failing).
C3_EmptyUploadEndsInError ==
    (AtRest /\ last.op = "build_rag_graph_from_text" /\ last.caller = "upload"
       /\ last.text.blank /\ ~last.faulted /\ FullSchema) =>
        /\ Document[last.doc].status = "error"
        /\ Document[last.doc].error # ""
        /\ ChunksOf(last.doc) = {}
        /\ \A i \in DOMAIN written : written[i] # "indexed"

\* A build (direct or inside reindex_document) has just completed and left
\* the Document indexed.
BuildIndexed ==
    /\ AtRest
    /\ last.op \in {"build_rag_graph_from_text", "reindex_document"}
    /\ last.outcome = "ok"
    /\ Document[last.doc].status = "indexed"

\* C4: after a build for doc_id completes with status indexed, every Chunk
\* it created carries that doc_id and has a Contains edge from that
\* Document, every Requirement it created has a References edge to that
\* Document, and every DescribedBy edge of such a Requirement points to a
\* Chunk whose doc_id is that doc_id.
C4_BuiltGraphIntegrity ==
    BuildIndexed =>
        \A n \in created :
            /\ n[1] = CHUNK_TABLE =>
                 /\ n \in nodes
                 /\ chunk_doc_id[n] = last.doc
                 /\ <<CONTAINS_RELATIONSHIP, DocRef(last.doc), n>> \in edges
            /\ n[1] = REQUIREMENT_TABLE =>
                 /\ <<REFERENCES_RELATIONSHIP, n, DocRef(last.doc)>> \in edges
                 /\ \A e \in edges :
                      (e[1] = DESCRIBED_BY_RELATIONSHIP /\ e[2] = n)
                         => (e[3] \in nodes /\ e[3][1] = CHUNK_TABLE
                             /\ chunk_doc_id[e[3]] = last.doc)

\* A build left its document indexed with chunks and requirements, each
\* requirement with its DescribedBy edge.
C4_Witness ==
    /\ BuildIndexed
    /\ \E n \in created : n[1] = CHUNK_TABLE
    /\ \E n \in created :
         /\ n[1] = REQUIREMENT_TABLE
         /\ \E e \in edges : e[1] = DESCRIBED_BY_RELATIONSHIP /\ e[2] = n

\* C5: at the moment each relationship insert of a build is executed, both
\* of its endpoint nodes are already in the store.
C5_EndpointsBeforeEdges ==
    \A x \in rel_inserts : x[2] /\ x[3]

BuildRelationships ==
    {CONTAINS_RELATIONSHIP, PERFORMS_RELATIONSHIP, COMMITS_RELATIONSHIP,
     ON_WHAT_PERFORMED_RELATIONSHIP, EXPECTS_RELATIONSHIP, DESCRIBED_BY_RELATIONSHIP,
     REFERENCES_RELATIONSHIP}

\* A build ran to its end and inserted a relationship of each of the seven
\* kinds.
C5_Witness ==
    /\ run.pc = "return"
    /\ \A rel \in BuildRelationships : \E x \in rel_inserts : x[1] = rel

\* C6: at every operation boundary each Chunk has a Contains edge from an
\* existing Document whose doc_id is the chunk's doc_id (stated for the
\* behaviours in which no collaborator fails).
C6_NoChunkWithoutDocument ==
    (AtRest /\ nfaults = 0) =>
        \A n \in nodes :
            n[1] = CHUNK_TABLE =>
                /\ Document[chunk_doc_id[n]].present
                /\ <<CONTAINS_RELATIONSHIP, DocRef(chunk_doc_id[n]), n>> \in edges

\* The Chunk nodes a build of the text leaves for d: one per chunk index.
ExpectedChunks(d, text) == {NodeRef(CHUNK_TABLE, d, i) : i \in 0..(Len(chunk_text(text)) - 1)}

\* C7: reindex_document on an indexed document whose file is unchanged
\* succeeds, returns the number of chunks of the file, and leaves exactly
\* one Chunk per chunk index (each time it is called; stated for a file
\* that has chunks, with no collaborator failing).
C7_ReindexRebuilds ==
    (AtRest /\ last.op = "reindex_document" /\ last.pre = "indexed"
       /\ ~last.faulted /\ chunk_text(last.text) # << >>) =>
        /\ last.outcome = "ok"
        /\ last.chunks_indexed = Len(chunk_text(last.text))
        /\ ChunksOf(last.doc) = ExpectedChunks(last.doc, last.text)

\* C8: in reindex_document, after the delete step and before the rebuild,
\* the store holds no Document for doc_id, no Chunk with that doc_id and no
\* Requirement that referenced the Document.
C8_DeleteStepRemovesSubtree ==
    (run.caller = "reindex" /\ run.pc = "extract") =>
        /\ ~Document[run.doc].present
        /\ ChunksOf(run.doc) = {}
        /\ had_refs \cap nodes = {}

\* C9: after delete_document completes on an indexed document the store
\* holds no Document and no Chunk with that doc_id, and no Requirement that
\* had a References edge to the Document.
C9_DeleteCascades ==
    (AtRest /\ last.op = "delete_document" /\ last.outcome = "ok" /\ last.pre = "indexed") =>
        /\ ~Document[last.doc].present
        /\ ChunksOf(last.doc) = {}
        /\ had_refs \cap nodes = {}

\* The Requirement nodes a build of the text leaves for d.
ExpectedRequirements(d, text) ==
    LET c == extract_components(text, chunk_text(text))
    IN {NodeRef(REQUIREMENT_TABLE, d, c.requirements[k].n) : k \in DOMAIN c.requirements}

\* C10: a second build_rag_graph_from_text with the same doc_id and text,
\* with no delete in between, completes without error, leaves the Document
\* indexed and the same Chunk and Requirement nodes as one invocation
\* (stated for a database that has every table and column, with no
\* collaborator failing).
C10_RetryIsIdempotent ==
    (AtRest /\ last.op = "build_rag_graph_from_text" /\ last.caller = "retry"
       /\ last.pre = "indexed" /\ ~last.faulted /\ FullSchema) =>
        /\ last.outcome = "ok"
        /\ Document[last.doc].status = "indexed"
        /\ ChunksOf(last.doc) = ExpectedChunks(last.doc, last.text)
        /\ RequirementsOf(last.doc) = ExpectedRequirements(last.doc, last.text)

\* ------------------------------------------------------------ retrieval

\* Largest top_k a direct caller passes.
MaxTopK == 2

\* top_k=3 in get_completion, top_k_rag: int = 3 in generate_completion.
TOP_K_RAG == 3

\* "score": 1.0
SCORE == 1

\* Query texts, and embedding_pipeline.encode of each (the model maps a text
\* to a vector; the code then only rescales it when a component exceeds
\* 1e6, which leaves its direction unchanged).
Queries == {"east", "north", "north-east"}

encode(query_text) ==
    IF query_text = "east" THEN <<1, 0>>
    ELSE IF query_text = "north" THEN <<0, 1>>
    ELSE <<1, 1>>

ChunkA == NodeRef(CHUNK_TABLE, 1, 0)
ChunkB == NodeRef(CHUNK_TABLE, 1, 1)
ChunkC == NodeRef(CHUNK_TABLE, 2, 0)

\* Stores of chunks with known embeddings, as builds of two documents leave
\* them: none; three different directions; two chunks of different
\* documents with the same direction; two chunks with the same embedding;
\* one chunk opposite to the others.
Corpora ==
    { << >>,
      [c \in {ChunkA, ChunkB, ChunkC} |->
          IF c = ChunkA THEN <<1, 0>> ELSE IF c = ChunkB THEN <<1, 1>> ELSE <<0, 1>>],
      [c \in {ChunkA, ChunkB, ChunkC} |->
          IF c = ChunkA THEN <<1, 0>> ELSE IF c = ChunkB THEN <<0, 1>> ELSE <<2, 0>>],
      [c \in {ChunkA, ChunkB, ChunkC} |->
          IF c = ChunkA THEN <<1, 1>> ELSE IF c = ChunkB THEN <<2, 1>> ELSE <<1, 1>>],
      [c \in {ChunkA, ChunkB, ChunkC} |->
          IF c = ChunkA THEN <<0, 1>> ELSE IF c = ChunkB THEN <<0 - 1, 0>> ELSE <<1, 2>>] }

Dot(a, b) == a[1] * b[1] + a[2] * b[2]

\* Ranking by the raw dot product, without dividing by the norms.
CosLE_Unnormalised(a, b, q) == Dot(a, q) <= Dot(b, q)

\* cos(a, q) <= cos(b, q), for non-zero vectors: the ORDER BY expression
\* 1.0 - dot / (|c.embedding| * |query_vector|), compared without roots.
CosLE(a, b, q) ==
    LET da == Dot(a, q)
        db == Dot(b, q)
    IN IF da >= 0 /\ db >= 0 THEN da * da * Dot(b, b) <= db * db * Dot(a, a)
       ELSE IF da < 0 /\ db >= 0 THEN TRUE
       ELSE IF da >= 0 /\ db < 0 THEN FALSE
       ELSE da * da * Dot(b, b) >= db * db * Dot(a, a)

\* The candidates with the doc_id condition left out of the WHERE clause.
Candidates_Unfiltered(f) ==
    {c \in nodes : c[1] = CHUNK_TABLE /\ c \in DOMAIN embedding}

\* MATCH (c:Chunk) WHERE c.embedding IS NOT NULL [AND c.doc_id = $doc_id]
Candidates(f) ==
    {c \in nodes : c[1] = CHUNK_TABLE /\ c \in DOMAIN embedding
                   /\ (f = NoFilter \/ chunk_doc_id[c] = f)}

Min(a, b) == IF a <= b THEN a ELSE b

\* ORDER BY 1.0 - cosine LIMIT $top_k: every sequence of top_k candidates
\* (all of them when there are fewer) in non-increasing cosine order with
\* no candidate left out that is closer than one taken; the order among
\* equally close candidates is the store's.
Rankings(cands, q, k) ==
    LET n == Min(k, Cardinality(cands)) IN
    {r \in [1..n -> cands] :
        /\ \A i, j \in 1..n : i < j =>
             (r[i] # r[j] /\ CosLE(embedding[r[j]], embedding[r[i]], q))
        /\ \A c \in cands \ {r[i] : i \in 1..n} :
             \A i \in 1..n : CosLE(embedding[c], embedding[r[i]], q)}

\* row[1], the text property of the chunk.
ChunkText(c) == <<"text of", c[2], c[3]>>

\* The targets of the edges of one relationship type that leave a node of
\* reqs: one OPTIONAL MATCH (r)-[:rel]->(x) of the graph query.
Targets(reqs, rel) == {e[3] : e \in {x \in edges : x[1] = rel /\ x[2] \in reqs}}

\* The context dictionary the rows of the graph query fill for chunk c: the
\* requirements DescribedBy the chunk and, from each of them, the documents
\* over Described_in, the user interactions over Linked_to_feedback and the
\* requirements over Depends_on (as sets: a row is a combination of
\* matches, so a list can name a node several times).
Context(c) ==
    LET reqs == {r \in nodes : <<DESCRIBED_BY_RELATIONSHIP, r, c>> \in edges} IN
    [requirements |-> reqs,
     documents |-> Targets(reqs, DESCRIBED_IN_RELATIONSHIP),
     user_interactions |-> Targets(reqs, LINKED_TO_FEEDBACK_RELATIONSHIP),
     related_requirements |-> Targets(reqs, DEPENDS_ON_RELATIONSHIP)]

\* One element of enriched_results; format_context lists every entry of the
\* context dictionary.
Enriched(c) ==
    [chunk |-> ChunkText(c), score |-> SCORE,
     metadata |-> [doc_id |-> chunk_doc_id[c], chunk_id |-> c],
     context |-> Context(c), language |-> "ru"]

EnrichAll(ranked) == [i \in DOMAIN ranked |-> Enriched(ranked[i])]

Key(c) == <<c.query, c.top_k, c.filter>>

\* A retrieve_relevant_chunks call begins.
StartRetrieve(op, caller, q, k, f, pc) ==
    [op |-> op, caller |-> caller, query |-> q, top_k |-> k, filter |-> f, pc |-> pc,
     close_db |-> FALSE, encoded |-> FALSE, repeat |-> (<<q, k, f>> = prev_key),
     faulted |-> FALSE]

Ended(outcome) == [op |-> call.op, outcome |-> outcome, faulted |-> call.faulted]

\* The except branch of retrieve_relevant_chunks: return [].
ReturnEmpty ==
    /\ result' = << >>
    /\ call' = [call EXCEPT !.pc = "return", !.faulted = TRUE]

graph_vars == <<Document, nodes, chunk_doc_id, edges, embedding>>

\* retrieve_relevant_chunks(query_text, embedding_pipeline, db, filter_doc_id,
\* top_k) called directly: with a connected client, or with db=None.
retrieve_relevant_chunks(q, k, f, db_given) ==
    /\ call.pc = "idle"
    /\ db_given => connect(schema).ok
    /\ schema' = IF db_given THEN connect(schema).schema ELSE schema
    /\ call' = StartRetrieve("retrieve_relevant_chunks", "direct", q, k, f,
                             IF db_given THEN "encode" ELSE "connect")
    /\ result' = << >>
    /\ done' = NotCalled
    /\ opened' = 0
    /\ UNCHANGED <<graph_vars, build_vars, unit_vars, nfaults, prev_key>>

\* db is None: KuzuDBClient(...) and db.connect(), before the try block.
\* Opening the database can fail (store unavailable); the schema statements
\* can raise after the connection was assigned.  Either reaches the caller.
RetrieveConnect ==
    /\ call.pc = "connect"
    /\ \E unavailable \in BOOLEAN :
         /\ ~unavailable \/ CanFail
         /\ Fault(unavailable)
         /\ IF unavailable
            THEN /\ done' = [Ended("raised") EXCEPT !.faulted = TRUE]
                 /\ call' = NoCall
                 /\ UNCHANGED <<schema, opened>>
            ELSE LET c == connect(schema) IN
                 /\ schema' = c.schema
                 /\ opened' = opened + 1
                 /\ IF c.ok
                    THEN /\ call' = [call EXCEPT !.pc = "encode", !.close_db = TRUE]
                         /\ done' = done
                    ELSE /\ call' = NoCall
                         /\ done' = Ended("raised")
    /\ UNCHANGED <<graph_vars, build_vars, unit_vars, result, prev_key>>

\* get_embedding_pipeline() and embedding_pipeline.encode([query_text]).
RetrieveEncode ==
    /\ call.pc = "encode"
    /\ \E fails \in BOOLEAN :
         /\ ~fails \/ CanFail
         /\ Fault(fails)
         /\ IF fails
            THEN ReturnEmpty
            ELSE /\ call' = [call EXCEPT !.pc = "rank", !.encoded = TRUE]
                 /\ result' = result
    /\ UNCHANGED <<schema, graph_vars, build_vars, unit_vars, done, opened, prev_key>>

\* db.execute(chunk_query, params) and the loop over its rows.  The store
\* can raise, or not answer; the call has no timeout.
RetrieveRank ==
    /\ call.pc = "rank"
    /\ \E answer \in {"rows", "raises", "silent"} :
         /\ answer = "rows" \/ CanFail
         /\ Fault(answer # "rows")
         /\ IF answer = "silent"
            THEN /\ call' = [call EXCEPT !.pc = "blocked", !.faulted = TRUE]
                 /\ result' = result
            ELSE IF answer = "raises" \/ CHUNK_TABLE \notin schema
            THEN ReturnEmpty
            ELSE \E r \in Rankings(Candidates(call.filter), encode(call.query), call.top_k) :
                   /\ result' = [i \in DOMAIN r |->
                                   [text |-> ChunkText(r[i]), score |-> SCORE,
                                    metadata |-> [doc_id |-> chunk_doc_id[r[i]],
                                                  chunk_id |-> r[i]]]]
                   /\ call' = [call EXCEPT !.pc = IF r = << >> THEN "return" ELSE "enrich"]
    /\ UNCHANGED <<schema, graph_vars, build_vars, unit_vars, done, opened, prev_key>>

\* For every chunk the graph query and format_context; the element appended
\* to enriched_results has the keys chunk, score, metadata, context and
\* language.  A failing graph query empties the whole result.
RetrieveEnrich ==
    /\ call.pc = "enrich"
    /\ \E fails \in BOOLEAN :
         /\ ~fails \/ CanFail
         /\ Fault(fails)
         /\ IF fails
            THEN ReturnEmpty
            ELSE /\ result' = EnrichAll([i \in DOMAIN result |-> result[i].metadata.chunk_id])
                 /\ call' = [call EXCEPT !.pc = "return"]
    /\ UNCHANGED <<schema, graph_vars, build_vars, unit_vars, done, opened, prev_key>>

\* finally: a client the call opened is closed; the list goes to the caller.
\* prev_key remembers the call when it returned without an exception.
RetrieveReturn ==
    /\ call.pc = "return"
    /\ opened' = IF call.close_db THEN opened - 1 ELSE opened
    /\ prev_key' = IF call.faulted THEN NoKey ELSE Key(call)
    /\ IF call.caller = "direct"
       THEN /\ done' = Ended("returned")
            /\ call' = NoCall
       ELSE /\ done' = done
            /\ call' = [call EXCEPT !.pc = IF call.caller = "get_completion"
                                           THEN "consume" ELSE "join"]
    /\ UNCHANGED <<schema, graph_vars, build_vars, unit_vars, nfaults, result>>

\* ----------------------------------------------------------- consumers

\* How a failure of the handler in flight reaches its caller: get_completion
\* turns every exception into an HTTP 500.
Failure == IF call.op = "get_completion" THEN "http500" ELSE "raised"

\* POST /completion/: Depends(get_db) connects (a failure ends the request;
\* the dependency closes its client itself), then the handler retrieves
\* with that client and top_k=3.
get_completion(q) ==
    /\ call.pc = "idle"
    /\ LET c == connect(schema) IN
       /\ schema' = c.schema
       /\ IF c.ok
          THEN /\ call' = StartRetrieve("get_completion", "get_completion", q, TOP_K_RAG,
                                        NoFilter, "encode")
               /\ done' = NotCalled
          ELSE /\ call' = NoCall
               /\ done' = [op |-> "get_completion", outcome |-> "http500", faulted |-> FALSE]
    /\ result' = << >>
    /\ opened' = 0
    /\ UNCHANGED <<graph_vars, build_vars, unit_vars, nfaults, prev_key>>

\* context += "\n".join(chunk["text"] for chunk in context_chunks): a
\* KeyError when an element has no text key; otherwise generate_completion
\* is called with db=None.
CompletionConsume ==
    /\ call.pc = "consume"
    /\ IF \E i \in DOMAIN result : "text" \notin DOMAIN result[i]
       THEN /\ done' = Ended("http500")
            /\ call' = NoCall
       ELSE /\ done' = done
            /\ call' = [call EXCEPT !.pc = "g_connect", !.caller = "generate_completion"]
    /\ UNCHANGED <<schema, graph_vars, build_vars, unit_vars, nfaults, result, opened, prev_key>>

\* generate_completion(current_text, ...) called with db=None.
generate_completion(q) ==
    /\ call.pc = "idle"
    /\ call' = StartRetrieve("generate_completion", "generate_completion", q, TOP_K_RAG,
                             NoFilter, "g_connect")
    /\ result' = << >>
    /\ done' = NotCalled
    /\ opened' = 0
    /\ UNCHANGED <<schema, graph_vars, build_vars, unit_vars, nfaults, prev_key>>

\* db is None: the client is made and connected before the try block, so a
\* raising connect() reaches the caller with the connection assigned.  Then
\* the two CREATE NODE TABLE IF NOT EXISTS (both tables exist once connect()
\* succeeded) and, in the finally block, db.close().
GenerateConnect ==
    /\ call.pc = "g_connect"
    /\ LET c == connect(schema) IN
       /\ schema' = c.schema
       /\ IF c.ok
          THEN /\ opened' = opened
               /\ call' = [call EXCEPT !.pc = "g_count"]
               /\ done' = done
          ELSE /\ opened' = opened + 1
               /\ done' = Ended(Failure)
               /\ call' = NoCall
    /\ UNCHANGED <<graph_vars, build_vars, unit_vars, nfaults, result, prev_key>>

\* db.execute("MATCH (d:Document) RETURN count(*)") on the closed client:
\* execute() finds conn None and connects again.  With documents in the
\* store the chunks are retrieved with that client; a failing count is
\* logged and the completion goes on without context.
GenerateCount ==
    /\ call.pc = "g_count"
    /\ opened' = opened + 1
    /\ \E fails \in BOOLEAN :
         /\ ~fails \/ CanFail
         /\ Fault(fails)
         /\ call' =
              IF fails THEN [call EXCEPT !.pc = "llm", !.faulted = TRUE]
              ELSE IF \A d \in DocIds : ~Document[d].present THEN [call EXCEPT !.pc = "llm"]
              ELSE [StartRetrieve(call.op, "generate_completion", call.query, TOP_K_RAG,
                                  NoFilter, "encode") EXCEPT !.faulted = call.faulted]
    /\ UNCHANGED <<schema, graph_vars, build_vars, unit_vars, result, done, prev_key>>

\* "\n---\n".join([chunk['text'] for chunk in relevant_chunks]): a KeyError
\* when an element has no text key, caught and logged; the prompt is then
\* built without the retrieved context.
GenerateJoin ==
    /\ call.pc = "join"
    /\ call' = [call EXCEPT !.pc = "llm"]
    /\ UNCHANGED <<schema, graph_vars, build_vars, unit_vars, nfaults, result, done, opened, prev_key>>

\* get_llm() and create_chat_completion; the function returns (or raises)
\* without closing the client it connected again.
GenerateLLM ==
    /\ call.pc = "llm"
    /\ \E fails \in BOOLEAN :
         /\ ~fails \/ CanFail
         /\ Fault(fails)
         /\ done' = IF fails THEN [Ended(Failure) EXCEPT !.faulted = TRUE] ELSE Ended("ok")
    /\ call' = NoCall
    /\ UNCHANGED <<schema, graph_vars, build_vars, unit_vars, result, opened, prev_key>>

\* GET /rag/search: retrieve_relevant_chunks is called with the keywords
\* similarity_threshold and use_cache, which it does not accept; the
\* TypeError is turned into an HTTP 500 before anything is retrieved.
search_documents(q, k, f) ==
    /\ call.pc = "idle"
    /\ done' = [op |-> "search_documents", outcome |-> "http500", faulted |-> FALSE]
    /\ result' = << >>
    /\ opened' = 0
    /\ UNCHANGED <<schema, graph_vars, build_vars, unit_vars, nfaults, call, prev_key>>

\* ------------------------------------------------------- retrieval spec

\* A store holding one of the corpora, indexed by earlier builds.
\* The requirements in a store: the build found one in the first chunk of
\* each document, none in a second chunk.
CorpusRequirements(corpus) ==
    {NodeRef(REQUIREMENT_TABLE, c[2], 0) : c \in {x \in DOMAIN corpus : x[3] = 0}}

\* The edges the build gives a requirement that has no role keys: to its
\* chunk and to its document.
RequirementEdges(r) ==
    {<<DESCRIBED_BY_RELATIONSHIP, r, NodeRef(CHUNK_TABLE, r[2], 0)>>,
     <<REFERENCES_RELATIONSHIP, r, DocRef(r[2])>>}

RetrievalInit ==
    /\ \E corpus \in Corpora :
         /\ embedding = corpus
         /\ nodes = DOMAIN corpus \cup CorpusRequirements(corpus)
         /\ chunk_doc_id = [c \in DOMAIN corpus |-> c[2]]
         /\ Document = [d \in DocIds |->
                          IF \E c \in DOMAIN corpus : c[2] = d
                          THEN [present |-> TRUE, status |-> "indexed", error |-> ""]
                          ELSE NoDocument]
         /\ edges = {<<CONTAINS_RELATIONSHIP, DocRef(c[2]), c>> : c \in DOMAIN corpus}
                    \cup UNION {RequirementEdges(r) : r \in CorpusRequirements(corpus)}
         /\ schema \in IF DOMAIN corpus = {} THEN InitialSchemas
                       ELSE {connect(x).schema : x \in {y \in InitialSchemas : connect(y).ok}}
    /\ UnitsUnused
    /\ file = [d \in DocIds |-> NoFile]
    /\ issued = {}
    /\ run = Idle
    /\ last = NotFinished
    /\ nops = 0
    /\ nfaults = 0
    /\ written = << >>
    /\ rel_inserts = {}
    /\ created = {}
    /\ had_refs = {}
    /\ nlp = "none"
    /\ call = NoCall
    /\ result = << >>
    /\ done = NotCalled
    /\ opened = 0
    /\ prev_key = NoKey

TopKs == 0..MaxTopK

\* The steps of a call in flight.
RetrievalSteps ==
    \/ RetrieveConnect
    \/ RetrieveEncode
    \/ RetrieveRank
    \/ RetrieveEnrich
    \/ RetrieveReturn
    \/ CompletionConsume
    \/ GenerateConnect
    \/ GenerateCount
    \/ GenerateJoin
    \/ GenerateLLM

RetrievalNext ==
    \/ \E q \in Queries, k \in TopKs, f \in DocIds \cup {NoFilter}, db_given \in BOOLEAN :
         retrieve_relevant_chunks(q, k, f, db_given)
    \/ \E q \in Queries : get_completion(q)
    \/ \E q \in Queries : generate_completion(q)
    \/ \E q \in Queries, k \in TopKs, f \in DocIds \cup {NoFilter} : search_documents(q, k, f)
    \/ RetrievalSteps

RetrievalSpec == RetrievalInit /\ [][RetrievalNext]_vars

\* A call in flight takes its next step whenever it has one.
RetrievalLive == RetrievalSpec /\ WF_vars(RetrievalSteps)

\* ----------------------------------------------------- retrieval claims

\* retrieve_relevant_chunks is about to hand result to its caller.
Returning == call.pc = "return"

\* C11: the sequence retrieve_relevant_chunks returns has length at most
\* top_k, and when filter_doc_id is given every element's metadata.doc_id
\* equals it.
C11_TopKAndFilter ==
    Returning =>
        /\ Len(result) <= call.top_k
        /\ call.filter # NoFilter =>
             \A i \in DOMAIN result : result[i].metadata.doc_id = call.filter

\* A filtered retrieval returns exactly top_k elements while the store
\* holds more candidates than that and a chunk of another document.
C11_Witness ==
    /\ Returning
    /\ call.filter # NoFilter
    /\ call.top_k >= 1
    /\ Len(result) = call.top_k
    /\ Cardinality(Candidates(call.filter)) > call.top_k
    /\ \E c \in DOMAIN embedding : chunk_doc_id[c] # call.filter

\* The retrieval ran to its end without an exception and the query vector
\* is the embedding of candidate c.
ExactMatch(c) ==
    /\ Returning
    /\ ~call.faulted
    /\ call.top_k >= 1
    /\ c \in Candidates(call.filter)
    /\ embedding[c] = encode(call.query)

FirstWithTopScore(c) ==
    /\ result # << >>
    /\ result[1].metadata.chunk_id = c
    /\ result[1].score = SCORE
    /\ \A i \in DOMAIN result : result[1].score >= result[i].score

OnlyMatch(c) ==
    \A x \in Candidates(call.filter) \ {c} :
        ~(/\ embedding[x][1] * embedding[c][2] = embedding[x][2] * embedding[c][1]
          /\ Dot(embedding[x], embedding[c]) > 0)

C13_NeverRaises ==
    done.op = "retrieve_relevant_chunks" => done.outcome = "returned"

\* C14: every element retrieve_relevant_chunks returns has the fields text,
\* score and metadata, text being the matched chunk's text, so a consumer
\* can read result['text'] of every element.
C14_ElementsHaveText ==
    Returning =>
        \A i \in DOMAIN result :
            /\ {"text", "score", "metadata"} \subseteq DOMAIN result[i]
            /\ result[i].text = ChunkText(result[i].metadata.chunk_id)

\* C15: a retrieval with the (query_text, top_k, filter_doc_id) of the one
\* just before it (nothing happened in between, so within any time-to-live)
\* returns without invoking the embedding provider again.
C15_RepeatServedFromCache ==
    (Returning /\ call.repeat) => ~call.encoded

\* C16: when the similarity search does not answer, retrieve_relevant_chunks
\* still returns to its caller, with an empty result.
C16_UnansweredSearchReturns ==
    (call.pc = "blocked") ~> (call.pc = "return" /\ result = << >>)

\* C20: when generate_completion, called with db=None, has finished without
\* an error, no connection it opened itself is still open.
C20_OwnConnectionsClosed ==
    (call.pc = "idle" /\ done.op = "generate_completion" /\ done.outcome = "ok"
       /\ ~done.faulted) => opened = 0

\* The relationship types the graph query of retrieve_relevant_chunks reads.
ReadRelationships ==
    {DESCRIBED_BY_RELATIONSHIP, PERFORMS_RELATIONSHIP, COMMITS_RELATIONSHIP,
     ON_WHAT_PERFORMED_RELATIONSHIP, EXPECTS_RELATIONSHIP, DESCRIBED_IN_RELATIONSHIP,
     LINKED_TO_FEEDBACK_RELATIONSHIP, DEPENDS_ON_RELATIONSHIP}

\* The relationship types a build writes, whatever the text.
WrittenRelationships ==
    UNION {{BuildStatements(d, t)[i].table :
                i \in {j \in DOMAIN BuildStatements(d, t) :
                          BuildStatements(d, t)[j].op = "CREATE_REL"}} :
           d \in DocIds, t \in Texts}

\* A call returns an element whose chunk has a requirement.
EnrichedWithRequirement ==
    /\ Returning
    /\ \E i \in DOMAIN result : result[i].context.requirements # {}

\* C24: the context retrieve_relevant_chunks builds for a chunk lists the
\* source Document of every Requirement the chunk describes, and every
\* relationship type the retriever reads is one the builder writes.
C24_ContextListsSourceDocument ==
    EnrichedWithRequirement =>
        /\ \A i \in DOMAIN result :
               result[i].context.requirements # {}
                  => DocRef(result[i].metadata.doc_id) \in result[i].context.documents
        /\ ReadRelationships \subseteq WrittenRelationships

\* The role edge that leads to a node of each role table.
RoleRelationship(table) ==
    IF table = ACTOR_TABLE THEN PERFORMS_RELATIONSHIP
    ELSE IF table = ACTION_TABLE THEN COMMITS_RELATIONSHIP
    ELSE IF table = OBJECT_TABLE THEN ON_WHAT_PERFORMED_RELATIONSHIP
    ELSE EXPECTS_RELATIONSHIP

RoleTables == {ACTOR_TABLE, ACTION_TABLE, OBJECT_TABLE, RESULT_TABLE}

\* The Requirements the latest build created that have a role edge to n.
LinkedFrom(n) ==
    {r \in created : r[1] = REQUIREMENT_TABLE /\ <<RoleRelationship(n[1]), r, n>> \in edges}

\* C29: after a successful build every Actor, Action, Object and Result
\* node the build created is the target of exactly one role edge from a
\* Requirement of that build, also when a sentence has several tokens
\* matching the same role.
C29_RoleNodesLinkedOnce ==
    BuildIndexed =>
        \A n \in created : n[1] \in RoleTables => Cardinality(LinkedFrom(n)) = 1

\* Every table the statements of a build name, whatever the text, and the
\* error column the except branch of the build and reindex_document set.
WrittenSchema ==
    UNION {{BuildStatements(d, t)[i].table : i \in DOMAIN BuildStatements(d, t)} :
           d \in DocIds, t \in Texts}
    \cup {DOCUMENT_ERROR_PROPERTY}

\* connect() has just returned to the build that called it.
ConnectSucceeded == run.pc = "analyse" /\ run.close_db

\* The tables the statements of connect() create.
ConnectCreates == {schema_queries[i].name : i \in DOMAIN schema_queries}

\* C30: after KuzuDBClient.connect() succeeds the schema contains every
\* node table, relationship table and property that build_rag_graph_from_text
\* and reindex_document write (the Chunk and Entity tables and the Document
\* error property among them), and a relationship table connect() creates
\* exists only together with both of its endpoint node tables.
C30_ConnectCreatesWrittenSchema ==
    /\ ConnectSucceeded => WrittenSchema \subseteq (schema \cap ConnectCreates)
    /\ \A i \in DOMAIN schema_queries :
          LET q == schema_queries[i] IN
          (q.kind = "rel" /\ q.name \in schema) => (q.from \in schema /\ q.to \in schema)

\* ------------------------------------------- reindex and concurrent builds

\* C17: when no uploaded file can be located for doc_id, a reindex (the
\* function reindex_document or the endpoint reindex_doc) ends in a
\* not-found error, and the nodes and edges of the store are unchanged.
C17_MissingFileIsNotFound ==
    [][(nops' = nops + 1 /\ last'.op \in {"reindex_document", "reindex_doc"}
          /\ ~file[last'.doc].exists)
         => (last'.outcome = "http404" /\ UNCHANGED <<Document, nodes, chunk_doc_id, edges>>)]_vars

\* C18: a reindex whose file yields empty or whitespace-only text, whatever
\* the file type, sets the Document to status error with a message, returns
\* chunks_indexed = 0 and does not invoke the build (stated for a database
\* that has every table and column, with no collaborator failing).
C18_BlankReindexReportsError ==
    (AtRest /\ last.op = "reindex_document" /\ file[last.doc].exists /\ last.text.blank
       /\ nfaults = 0 /\ FullSchema) =>
        /\ last.outcome = "error_result"
        /\ Document[last.doc].status = "error"
        /\ Document[last.doc].error # ""
        /\ last.chunks_indexed = 0
        /\ \A i \in DOMAIN written : written[i] # "processing"

\* What the store holds for document d: its Document node, the nodes whose
\* key carries d, and the edges that touch either.
GraphOf(st, d) ==
    [Document |-> st.Document[d],
     nodes |-> {n \in st.nodes : n[2] = d},
     chunk_doc_id |-> [n \in {x \in DOMAIN st.chunk_doc_id : x[2] = d} |-> st.chunk_doc_id[n]],
     edges |-> {e \in st.edges : e[2][2] = d \/ e[3][2] = d}]

\* The store as it would be had only document d ever been handled.
Alone(st, d) ==
    [schema |-> st.schema,
     Document |-> [x \in DocIds |-> IF x = d THEN st.Document[x] ELSE NoDocument],
     nodes |-> {n \in st.nodes : n[2] = d},
     chunk_doc_id |-> [n \in {x \in DOMAIN st.chunk_doc_id : x[2] = d} |-> st.chunk_doc_id[n]],
     edges |-> {e \in st.edges : e[2][2] = d /\ e[3][2] = d}]

StoreNext == [schema |-> schema', Document |-> Document', nodes |-> nodes',
              chunk_doc_id |-> chunk_doc_id', edges |-> edges']

\* C19: builds for different doc_ids do not interfere.  Every step of a
\* build (or of the reindex around it) for one document leaves the nodes and
\* edges of every other document as they were; the pipeline its analysis
\* uses is the one its own language selected; and each of its statements
\* raises or not, and leaves for its document, exactly what it would on a
\* store in which only that document had ever been handled.
C19_BuildsDoNotInterfere ==
    [][run.pc # "idle" =>
         /\ \A x \in DocIds \ {run.doc} : GraphOf(StoreNext, x) = GraphOf(Store, x)
         /\ run.pc = "analyse" => nlp = SelectPipeline(run.text)
         /\ (run.pc = "exec" /\ nfaults' = nfaults) =>
              LET alone == Execute(Alone(Store, run.doc), run.doc,
                                   BuildStatements(run.doc, run.text)[run.ip])
              IN /\ (run'.pc = "except") = alone.raised
                 /\ GraphOf(StoreNext, run.doc) = GraphOf(alone.st, run.doc)
         /\ run.pc = "except" =>
              GraphOf(StoreNext, run.doc)
                 = GraphOf(ExecSetError(Alone(Store, run.doc), run.doc, run.exc).st, run.doc)]_vars

\* A build has just left its document indexed while another document, in
\* the other language, is in the store with its chunks and requirements.
C19_Witness ==
    /\ BuildIndexed
    /\ last.op = "build_rag_graph_from_text"
    /\ nlp = SelectPipeline(last.text)
    /\ \E x \in DocIds \ {last.doc} :
         /\ Document[x].status = "indexed"
         /\ ChunksOf(x) # {}
         /\ RequirementsOf(x) # {}
         /\ SelectPipeline(file[x].text) # nlp

\* ------------------------------------------------- analysis on its own

\* Texts of up to MaxElems elements.
MaxElems == 3

\* A paragraph with two requirement sentences.
Para2 == [type |-> "paragraph", short |-> FALSE, prefix |-> FALSE,
          sents |-> <<SReq(<<"nsubj", "root", "dobj">>), SMarked>>]

ElementKinds == {Header, ListItem, Para, ShortPara, Para2}

SampleTexts ==
    {[blank |-> FALSE, elements |-> e, ents |-> 0, lang |-> "en"] :
        e \in UNION {[1..n -> ElementKinds] : n \in 0..MaxElems}}

\* An empty store, no handler and no call in flight.
Quiet ==
    /\ schema = {}
    /\ Document = [d \in DocIds |-> NoDocument]
    /\ nodes = {}
    /\ chunk_doc_id = << >>
    /\ edges = {}
    /\ file = [d \in DocIds |-> NoFile]
    /\ issued = {}
    /\ run = Idle
    /\ last = NotFinished
    /\ nops = 0
    /\ nfaults = 0
    /\ written = << >>
    /\ rel_inserts = {}
    /\ created = {}
    /\ had_refs = {}
    /\ nlp = "none"
    /\ embedding = << >>
    /\ call = NoCall
    /\ result = << >>
    /\ done = NotCalled
    /\ opened = 0
    /\ prev_key = NoKey

handler_vars == <<store_vars, build_vars, nfaults, retrieval_vars>>

ExtractInit ==
    /\ Quiet
    /\ chunking = [pc |-> "none"]
    /\ pool = [pc |-> "none"]
    /\ stream = [pc |-> "none"]
    /\ \E d \in DocIds, t \in SampleTexts :
         extraction = [pc |-> "input", doc |-> d, text |-> t, chunks |-> << >>,
                       requirements |-> << >>, statements |-> << >>]

\* The analysis of a build: chunk_text, extract_components, and the
\* statements the build makes of them.
Analyse ==
    /\ extraction.pc = "input"
    /\ LET chunks == chunk_text(extraction.text) IN
       extraction' =
         [extraction EXCEPT
            !.pc = "analysed",
            !.chunks = chunks,
            !.requirements = extract_components(extraction.text, chunks).requirements,
            !.statements = BuildStatements(extraction.doc, extraction.text)]
    /\ UNCHANGED <<handler_vars, chunking, pool, stream>>

ExtractNext == Analyse

ExtractSpec == ExtractInit /\ [][ExtractNext]_vars

\* How many requirements a chunk yields: none for a header, one for a list
\* item (or a chunk with a list marker) that reads as a requirement, one per
\* requirement sentence for a paragraph.
Yield(ch) ==
    IF ch.type = "header" THEN 0
    ELSE IF ch.type = "list_item" \/ ch.prefix
    THEN IF (\E k \in DOMAIN ch.sents : ch.sents[k].req) \/ ch.prefix THEN 1 ELSE 0
    ELSE Cardinality({k \in DOMAIN ch.sents : ch.sents[k].req \/ ch.sents[k].listmark})

\* The position (from 1) in chunks of the chunk each requirement comes
\* from, in extraction order.
RECURSIVE Sources(_, _)
Sources(chunks, p) ==
    IF p > Len(chunks) THEN << >>
    ELSE [k \in 1..Yield(chunks[p]) |-> p] \o Sources(chunks, p + 1)

\* The CREATE statements of a table, in the order the build sends them.
Creates(statements, table) ==
    SelectSeq(statements, LAMBDA st : st.op = "CREATE" /\ st.table = table)

\* C21: the n-th requirement extracted (from 0) gets the id req_{doc_id}_{n},
\* the ids are pairwise distinct, and the chunk_id recorded on each
\* requirement is the id under which the build persists exactly the chunk
\* the requirement was extracted from.
C21_RequirementIdsAndChunks ==
    extraction.pc = "analysed" =>
        LET reqs == extraction.requirements
            d == extraction.doc
            src == Sources(extraction.chunks, 1)
            chunk_creates == Creates(extraction.statements, CHUNK_TABLE)
            req_creates == Creates(extraction.statements, REQUIREMENT_TABLE)
        IN /\ Len(reqs) = Len(src)
           /\ Len(req_creates) = Len(reqs)
           /\ Len(chunk_creates) = Len(extraction.chunks)
           /\ \A k \in DOMAIN reqs :
                /\ req_creates[k].from = NodeRef(REQUIREMENT_TABLE, d, k - 1)
                /\ reqs[k].n = k - 1
                /\ chunk_creates[src[k]].from = NodeRef(CHUNK_TABLE, d, reqs[k].chunk)
           /\ \A j, k \in DOMAIN reqs : j # k => req_creates[j].from # req_creates[k].from

\* A text was analysed in which a header and a dropped short paragraph come
\* before chunks that yield three requirements, two of them from one chunk.
C21_Witness ==
    /\ extraction.pc = "analysed"
    /\ Len(extraction.requirements) >= 2
    /\ Len(extraction.text.elements) > Len(extraction.chunks)
    /\ extraction.chunks[1].type = "header"
    /\ \E j, k \in DOMAIN extraction.requirements :
         j # k /\ extraction.requirements[j].chunk = extraction.requirements[k].chunk

\* ------------------------------------------------ chunk_text, by character

\* A text is a sequence of one-character strings; offsets count from 0 as
\* in the code.
MaxBlocks == 5

\* Largest max_chunk_size a caller passes (the default is 512; the texts
\* here are scaled down with it).
MaxChunkSize == 10

\* chunk_text drops a paragraph of fewer than 5 words.
MIN_WORDS == 5

ChunkSizes == {MaxChunkSize - 2, MaxChunkSize}

\* The pieces texts are made of: a sentence of five words, two sentences of
\* two words (one ending in a full stop), a space and a blank line.
Blocks ==
    { <<"a", " ", "a", " ", "a", " ", "a", " ", "a", "!">>,
      <<"b", " ", "b", "!">>,
      <<"c", " ", "c", ".">>,
      <<" ">>,
      <<"\n", "\n">> }

RECURSIVE Flatten(_)
Flatten(ss) == IF ss = << >> THEN << >> ELSE Head(ss) \o Flatten(Tail(ss))

CharTexts == {Flatten(bs) : bs \in UNION {[1..n -> Blocks] : n \in 0..MaxBlocks}}

IsSpace(c) == c \in {" ", "\n"}

\* str.strip()
Strip(s) ==
    LET ink == {i \in DOMAIN s : ~IsSpace(s[i])} IN
    IF ink = {} THEN << >>
    ELSE SubSeq(s, CHOOSE i \in ink : \A j \in ink : i <= j,
                   CHOOSE i \in ink : \A j \in ink : i >= j)

\* len(s.split())
Words(s) == Cardinality({i \in DOMAIN s : ~IsSpace(s[i]) /\ (i = 1 \/ IsSpace(s[i - 1]))})

\* text.find(sub, from): the offset of the first occurrence at or after
\* from, -1 when there is none.
Find(text, sub, from) ==
    LET at == {i \in from..(Len(text) - Len(sub)) : SubSeq(text, i + 1, i + Len(sub)) = sub}
    IN IF at = {} THEN 0 - 1 ELSE CHOOSE i \in at : \A j \in at : i <= j

\* Position i lies in whitespace that directly follows one of the marks.
AfterMark(s, i, marks) ==
    /\ IsSpace(s[i])
    /\ \E j \in 1..(i - 1) : s[j] \in marks /\ \A k \in (j + 1)..i : IsSpace(s[k])

\* Position i is matched by the separator \n+|\.\s+ of layout_parser.
LayoutSep(s, i) ==
    \/ s[i] = "\n"
    \/ s[i] = "." /\ i < Len(s) /\ IsSpace(s[i + 1])
    \/ AfterMark(s, i, {"."})

\* Position i is matched by the separator \n{2,} of the paragraph strategy.
ParagraphSep(s, i) ==
    /\ s[i] = "\n"
    /\ (i > 1 /\ s[i - 1] = "\n") \/ (i < Len(s) /\ s[i + 1] = "\n")

\* Position i lies between two sentences of the language pipeline: the
\* whitespace after a sentence-final mark.
SentenceSep(s, i) == AfterMark(s, i, {"!", "."})

\* The parts of s between separators (re.split), stripped, without the
\* empty ones, in order.
\* Position i of s is matched by the separator of the given split.
Sep(split, s, i) ==
    IF split = "layout" THEN LayoutSep(s, i)
    ELSE IF split = "paragraph" THEN ParagraphSep(s, i)
    ELSE SentenceSep(s, i)

RECURSIVE SegmentsFrom(_, _, _)
SegmentsFrom(s, split, i) ==
    IF i > Len(s) THEN << >>
    ELSE IF Sep(split, s, i) THEN SegmentsFrom(s, split, i + 1)
    ELSE LET stop == CHOOSE j \in i..Len(s) :
                        /\ \A k \in i..j : ~Sep(split, s, k)
                        /\ j = Len(s) \/ Sep(split, s, j + 1)
             part == Strip(SubSeq(s, i, stop))
         IN (IF part = << >> THEN << >> ELSE <<part>>) \o SegmentsFrom(s, split, stop + 1)

Segments(s, split) == SegmentsFrom(s, split, 1)

\* [sent.text.strip() for sent in nlp(chunk_text).sents if sent.text.strip()]
Sents(s) == Segments(s, "sentence")

NewChunk(t, start, end, origin) ==
    [text |-> t, start |-> start, end |-> end, type |-> "paragraph", origin |-> origin]

\* The layout strategy: one chunk per element of layout_parser, located
\* with text.find(chunk_text).
LayoutChunks(text) ==
    LET els == Segments(text, "layout") IN
    [k \in DOMAIN els |->
        NewChunk(els[k], Find(text, els[k], 0), Find(text, els[k], 0) + Len(els[k]), k)]

\* The paragraph strategy: one chunk per blank-line paragraph, located with
\* text.find(c, last_end).
RECURSIVE ParagraphLoop(_, _, _, _)
ParagraphLoop(text, raw, k, last_end) ==
    IF k > Len(raw) THEN << >>
    ELSE LET start == Find(text, raw[k], last_end)
             end == start + Len(raw[k])
         IN <<NewChunk(raw[k], start, end, k)>> \o ParagraphLoop(text, raw, k + 1, end)

ParagraphChunks(text) == ParagraphLoop(text, Segments(text, "paragraph"), 1, 0)

\* The sentence loop that splits an oversized paragraph.
RECURSIVE SplitLoop(_, _, _, _, _, _)
SplitLoop(sentences, k, current_chunk, start, max_chunk_size, origin) ==
    LET piece == NewChunk(Strip(current_chunk), start, start + Len(current_chunk), origin) IN
    IF k > Len(sentences)
    THEN IF Strip(current_chunk) # << >> THEN <<piece>> ELSE << >>
    ELSE LET sent == sentences[k] IN
         IF Len(current_chunk) + Len(sent) <= max_chunk_size
         THEN SplitLoop(sentences, k + 1, current_chunk \o <<" ">> \o sent, start,
                        max_chunk_size, origin)
         ELSE IF Strip(current_chunk) # << >>
         THEN <<piece>> \o SplitLoop(sentences, k + 1, sent, start + Len(current_chunk) + 1,
                                     max_chunk_size, origin)
         ELSE SplitLoop(sentences, k + 1, sent, start, max_chunk_size, origin)

\* Filter and refine: short paragraphs are dropped, oversized ones split.
RECURSIVE Refine(_, _, _)
Refine(chunks, k, max_chunk_size) ==
    IF k > Len(chunks) THEN << >>
    ELSE LET c == chunks[k] IN
         (IF Words(c.text) < MIN_WORDS THEN << >>
          ELSE IF Len(c.text) > max_chunk_size
          THEN SplitLoop(Sents(c.text), 1, << >>, c.start, max_chunk_size, k)
          ELSE <<c>>)
         \o Refine(chunks, k + 1, max_chunk_size)

\* The chunks before the filter: the layout elements, or the blank-line
\* paragraphs when the strategy is "paragraph" or no element was found.
RawChunks(text, strategy) ==
    IF strategy = "layout" /\ LayoutChunks(text) # << >>
    THEN LayoutChunks(text)
    ELSE ParagraphChunks(text)

ChunkInit ==
    /\ Quiet
    /\ extraction = [pc |-> "none"]
    /\ pool = [pc |-> "none"]
    /\ stream = [pc |-> "none"]
    /\ \E t \in CharTexts, strategy \in {"layout", "paragraph"}, m \in ChunkSizes :
         chunking = [pc |-> "input", text |-> t, strategy |-> strategy,
                     max_chunk_size |-> m, raw |-> << >>, final_chunks |-> << >>]

\* chunk_text(text, strategy, max_chunk_size) with the language pipeline
\* loaded.
ChunkTextCall ==
    /\ chunking.pc = "input"
    /\ LET raw == RawChunks(chunking.text, chunking.strategy) IN
       chunking' = [chunking EXCEPT
                      !.pc = "returned",
                      !.raw = raw,
                      !.final_chunks = Refine(raw, 1, chunking.max_chunk_size)]
    /\ UNCHANGED <<handler_vars, extraction, pool, stream>>

ChunkNext == ChunkTextCall

ChunkSpec == ChunkInit /\ [][ChunkNext]_vars

\* The chunks made of raw chunk k.
PiecesOf(k) == SelectSeq(chunking.final_chunks, LAMBDA c : c.origin = k)

RECURSIVE SentencesOf(_)
SentencesOf(chunks) ==
    IF chunks = << >> THEN << >> ELSE Sents(Head(chunks).text) \o SentencesOf(Tail(chunks))

\* Raw chunk k is a paragraph that was split.
Oversized(k) ==
    /\ Words(chunking.raw[k].text) >= MIN_WORDS
    /\ Len(chunking.raw[k].text) > chunking.max_chunk_size

\* The part of C22 about the sentences: each in exactly one chunk, whole
\* and in its original order.
C22_SentencesKept ==
    chunking.pc = "returned" =>
        \A k \in DOMAIN chunking.raw :
            Oversized(k) => SentencesOf(PiecesOf(k)) = Sents(chunking.raw[k].text)

\* C22: when chunk_text splits a paragraph longer than max_chunk_size,
\* every sentence of the paragraph appears in exactly one resulting chunk,
\* whole and in its original order, and every resulting chunk that holds
\* more than one sentence has length at most max_chunk_size.
C22_SplitKeepsSentencesAndSize ==
    /\ C22_SentencesKept
    /\ chunking.pc = "returned" =>
         \A k \in DOMAIN chunking.raw :
             Oversized(k) =>
                 \A i \in DOMAIN PiecesOf(k) :
                     Len(Sents(PiecesOf(k)[i].text)) > 1
                        => Len(PiecesOf(k)[i].text) <= chunking.max_chunk_size

\* C23: for every chunk (text, start, end, type) chunk_text returns,
\* 0 <= start <= end <= len(input) and input[start:end] is the chunk's text.
C23_OffsetsLocateChunks ==
    chunking.pc = "returned" =>
        \A i \in DOMAIN chunking.final_chunks :
            LET c == chunking.final_chunks[i] IN
            /\ 0 <= c.start
            /\ c.start <= c.end
            /\ c.end <= Len(chunking.text)
            /\ SubSeq(chunking.text, c.start + 1, c.end) = c.text

\* ----------------------------------------------------------- worker pool

\* Calls made on the pool.
MaxPoolCalls == 4

\* self.min_workers = 2, self.max_workers = 4
min_workers == 2
max_workers == 4

WORKER_IDLE == "idle"
WORKER_BUSY == "busy"
WORKER_STARTING == "starting"

\* None, for a worker or a job.
NoWorker == 0
NoJob == 0

\* WorkerPoolManager.__init__
NewPool ==
    [pc |-> "pool", initialized |-> FALSE, workers_ready |-> FALSE,
     next_worker_id |-> 1, workers |-> << >>, job_to_worker |-> << >>,
     next_job_id |-> 1, ncalls |-> 0,
     last |-> [op |-> "none", outcome |-> "none", worker |-> NoWorker, was |-> "", idle |-> 0]]

PoolInit ==
    /\ Quiet
    /\ extraction = [pc |-> "none"]
    /\ chunking = [pc |-> "none"]
    /\ stream = [pc |-> "none"]
    /\ pool = NewPool

\* A function without the keys in gone.
Without(f, gone) == [k \in DOMAIN f \ gone |-> f[k]]

\* _get_idle_worker_count
IdleWorkers(p) == {w \in DOMAIN p.workers : p.workers[w].state = WORKER_IDLE}

\* _get_idle_worker: the first idle worker in the dictionary's order, which
\* is the order of creation.
get_idle_worker(p) ==
    IF IdleWorkers(p) = {} THEN NoWorker
    ELSE CHOOSE w \in IdleWorkers(p) : \A v \in IdleWorkers(p) : w <= v

\* _create_worker: a started process, recorded in state starting.
create_worker(p) ==
    [p EXCEPT !.next_worker_id = @ + 1,
              !.workers = @ @@ (p.next_worker_id :>
                    [state |-> WORKER_STARTING, current_job_id |-> NoJob, alive |-> TRUE])]

RECURSIVE CreateWorkers(_, _)
CreateWorkers(p, n) == IF n = 0 THEN p ELSE CreateWorkers(create_worker(p), n - 1)

\* The last loop of _check_worker_health.
RECURSIVE EnsureMinimum(_)
EnsureMinimum(p) ==
    IF Cardinality(IdleWorkers(p)) < min_workers /\ Cardinality(DOMAIN p.workers) < max_workers
    THEN EnsureMinimum(create_worker(p))
    ELSE p

\* _check_worker_health; stuck are the busy workers whose last use is more
\* than worker_timeout ago.
check_worker_health(p, stuck) ==
    LET workers_to_remove ==
            {w \in DOMAIN p.workers :
                \/ ~p.workers[w].alive
                \/ p.workers[w].state = WORKER_BUSY /\ w \in stuck}
        jobs == {p.workers[w].current_job_id : w \in workers_to_remove}
    IN EnsureMinimum([p EXCEPT !.workers = Without(@, workers_to_remove),
                               !.job_to_worker = Without(@, jobs)])

\* The job assignment at the end of request_worker.
Assign(p, w) ==
    [p EXCEPT !.next_job_id = @ + 1,
              !.workers[w].state = WORKER_BUSY,
              !.workers[w].current_job_id = p.next_job_id,
              !.job_to_worker = @ @@ (p.next_job_id :> w),
              !.last = [op |-> "request_worker", outcome |-> "assigned", worker |-> w,
                        was |-> p.workers[w].state, idle |-> Cardinality(IdleWorkers(p))]]

Called(p) == [p EXCEPT !.ncalls = @ + 1]

\* initialize(worker_target): min_workers workers are created; the loop
\* waits until a worker is idle or worker_init_timeout has passed.
initialize ==
    /\ pool.ncalls < MaxPoolCalls
    /\ LET p == CreateWorkers([Called(pool) EXCEPT !.initialized = TRUE], min_workers) IN
       pool' = [p EXCEPT !.workers_ready = TRUE,
                         !.last = [op |-> "initialize", outcome |-> "returned",
                                   worker |-> NoWorker, was |-> "",
                                   idle |-> Cardinality(IdleWorkers(p))]]
    /\ UNCHANGED <<handler_vars, extraction, chunking, stream>>

\* request_worker(job_data).  Without an idle worker: at max_workers the
\* health check runs and _wait_for_idle_worker gives up after its timeout
\* (no worker turns idle while the call waits); then a worker is created,
\* waited for until worker_init_timeout, and given the job.
request_worker ==
    /\ pool.ncalls < MaxPoolCalls
    /\ IF ~pool.initialized \/ ~pool.workers_ready
       THEN pool' = [Called(pool) EXCEPT
                        !.last = [op |-> "request_worker", outcome |-> "raised",
                                  worker |-> NoWorker, was |-> "", idle |-> 0]]
       ELSE IF get_idle_worker(pool) # NoWorker
       THEN pool' = Assign(Called(pool), get_idle_worker(pool))
       ELSE \E stuck \in SUBSET DOMAIN pool.workers :
              LET checked == IF Cardinality(DOMAIN pool.workers) >= max_workers
                             THEN check_worker_health(Called(pool), stuck)
                             ELSE Called(pool)
              IN /\ Cardinality(DOMAIN pool.workers) < max_workers => stuck = {}
                 /\ stuck \subseteq {w \in DOMAIN pool.workers :
                                        pool.workers[w].state = WORKER_BUSY
                                        /\ pool.workers[w].alive}
                 /\ pool' = Assign(create_worker(checked), checked.next_worker_id)
    /\ UNCHANGED <<handler_vars, extraction, chunking, stream>>

\* mark_job_done(job_id), for a job that was given out or an unknown one.
mark_job_done(job_id) ==
    /\ pool.ncalls < MaxPoolCalls
    /\ LET p == Called(pool)
           worker_id == IF job_id \in DOMAIN p.job_to_worker
                        THEN p.job_to_worker[job_id] ELSE NoWorker
       IN pool' = [p EXCEPT
                     !.workers = IF worker_id \in DOMAIN p.workers
                                 THEN [@ EXCEPT ![worker_id].state = WORKER_IDLE,
                                                ![worker_id].current_job_id = NoJob]
                                 ELSE @,
                     !.job_to_worker = Without(@, {job_id}),
                     !.last = [op |-> "mark_job_done", outcome |-> "returned",
                               worker |-> worker_id, was |-> "", idle |-> 0]]
    /\ UNCHANGED <<handler_vars, extraction, chunking, stream>>

\* _check_worker_health(), called on its own.
CheckWorkerHealth ==
    /\ pool.ncalls < MaxPoolCalls
    /\ pool.initialized
    /\ \E stuck \in SUBSET {w \in DOMAIN pool.workers :
                              pool.workers[w].state = WORKER_BUSY /\ pool.workers[w].alive} :
         pool' = [check_worker_health(Called(pool), stuck) EXCEPT
                    !.last = [op |-> "_check_worker_health", outcome |-> "returned",
                              worker |-> NoWorker, was |-> "", idle |-> 0]]
    /\ UNCHANGED <<handler_vars, extraction, chunking, stream>>

\* A worker process ends (a crash of the native library, a kill).
WorkerExits(w) ==
    /\ w \in DOMAIN pool.workers
    /\ pool.workers[w].alive
    /\ pool' = [pool EXCEPT !.workers[w].alive = FALSE]
    /\ UNCHANGED <<handler_vars, extraction, chunking, stream>>

PoolNext ==
    \/ initialize
    \/ request_worker
    \/ \E j \in 1..MaxPoolCalls : mark_job_done(j)
    \/ CheckWorkerHealth
    \/ \E w \in 1..(2 * MaxPoolCalls) : WorkerExits(w)

PoolSpec == PoolInit /\ [][PoolNext]_vars

\* C25: in every reachable state of WorkerPoolManager, after any sequence
\* of initialize, request_worker, mark_job_done and _check_worker_health
\* calls, the number of workers in the pool is at most max_workers.
C25_AtMostMaxWorkers ==
    Cardinality(DOMAIN pool.workers) <= max_workers

\* C26: request_worker assigns a job only to a worker that is idle at the
\* moment of assignment, never to one that is starting or busy; and a
\* started worker reaches the idle state, so that initialize returns with at
\* least one ready worker.
C26_AssignsOnlyToIdle ==
    /\ (pool.last.op = "request_worker" /\ pool.last.outcome = "assigned")
          => pool.last.was = WORKER_IDLE
    /\ pool.last.op = "initialize" => pool.last.idle >= 1

\* ------------------------------------------------------------ streaming

\* generate_completion_stream invocations, numbered in the order in which
\* they reach stop_current_stream.
MaxStreams == 3

\* Tokens a subprocess writes before it ends.
MaxTokens == 1

Streams == 1..MaxStreams

\* current_stream_proc = None
NoProc == 0

\* What _stream_worker puts on the queue: a token, ("__error__", str(e)),
\* and None as the end-of-stream sentinel.
TOKEN == "token"
ERROR_ITEM == "__error__"
SENTINEL == "None"

\* An invocation that has not started: no subprocess, no queue.
NotStarted == [pc |-> "idle", proc |-> "none", queue |-> << >>, put |-> 0]

StreamInit ==
    /\ Quiet
    /\ extraction = [pc |-> "none"]
    /\ chunking = [pc |-> "none"]
    /\ pool = [pc |-> "none"]
    /\ stream = [pc |-> "stream", current_stream_proc |-> NoProc,
                 inv |-> [i \in Streams |-> NotStarted]]

\* proc.is_alive()
is_alive(st, i) == st.inv[i].proc \in {"running", "sent"}

\* stop_current_stream(): a live process behind the global handle is
\* terminated and joined and the handle reset; a handle to a process that
\* has ended is left as it is.
stop_current_stream(st) ==
    IF st.current_stream_proc # NoProc /\ is_alive(st, st.current_stream_proc)
    THEN [st EXCEPT !.inv[st.current_stream_proc].proc = "dead",
                    !.current_stream_proc = NoProc]
    ELSE st

\* generate_completion_stream from stop_current_stream() to proc.start():
\* no await in between.
StreamStart(i) ==
    /\ stream.inv[i].pc = "idle"
    /\ \A j \in Streams : j < i => stream.inv[j].pc # "idle"
    /\ stream' = [stop_current_stream(stream) EXCEPT
                    !.current_stream_proc = i,
                    !.inv[i] = [pc |-> "loop", proc |-> "running", queue |-> << >>, put |-> 0]]
    /\ UNCHANGED <<handler_vars, extraction, chunking, pool>>

\* _stream_worker: queue.put_nowait(content)
WorkerToken(i) ==
    /\ stream.inv[i].proc = "running"
    /\ stream.inv[i].put < MaxTokens
    /\ stream' = [stream EXCEPT !.inv[i].queue = Append(@, TOKEN), !.inv[i].put = @ + 1]
    /\ UNCHANGED <<handler_vars, extraction, chunking, pool>>

\* _stream_worker: queue.put(None) after generation, or the error item and
\* None from the except branch; the process then exits.
WorkerComplete(i) ==
    /\ stream.inv[i].proc = "running"
    /\ \E failed \in BOOLEAN :
         stream' = [stream EXCEPT
                      !.inv[i].queue = IF failed THEN @ \o <<ERROR_ITEM, SENTINEL>>
                                       ELSE Append(@, SENTINEL),
                      !.inv[i].proc = "sent"]
    /\ UNCHANGED <<handler_vars, extraction, chunking, pool>>

\* The subprocess ends by itself: after its last put, or killed by a fault
\* of the native library before it wrote the sentinel.
WorkerExit(i) ==
    /\ is_alive(stream, i)
    /\ stream' = [stream EXCEPT !.inv[i].proc = "dead"]
    /\ UNCHANGED <<handler_vars, extraction, chunking, pool>>

\* The code after the token loop: proc.join() (the process has put its
\* last item and ends) and current_stream_proc = None.
AfterLoop(st, i) ==
    [st EXCEPT !.inv[i].pc = "done", !.inv[i].proc = "dead", !.current_stream_proc = NoProc]

\* token = await loop.run_in_executor(None, queue.get) and the body of the
\* loop: None leaves the loop and runs to the end without another await;
\* the error item is yielded first; a token is yielded and the loop goes on.
StreamConsume(i) ==
    /\ stream.inv[i].pc = "loop"
    /\ stream.inv[i].queue # << >>
    /\ LET token == Head(stream.inv[i].queue)
           taken == [stream EXCEPT !.inv[i].queue = Tail(@)]
       IN stream' = IF token = SENTINEL THEN AfterLoop(taken, i)
                    ELSE IF token = ERROR_ITEM THEN [taken EXCEPT !.inv[i].pc = "error"]
                    ELSE taken
    /\ UNCHANGED <<handler_vars, extraction, chunking, pool>>

\* The consumer asks for the item after "[Error: ...]": break, and the
\* code after the loop.
StreamBreak(i) ==
    /\ stream.inv[i].pc = "error"
    /\ stream' = AfterLoop(stream, i)
    /\ UNCHANGED <<handler_vars, extraction, chunking, pool>>

StreamNext ==
    \E i \in Streams :
        \/ StreamStart(i)
        \/ WorkerToken(i)
        \/ WorkerComplete(i)
        \/ WorkerExit(i)
        \/ StreamConsume(i)
        \/ StreamBreak(i)

StreamSpec == StreamInit /\ [][StreamNext]_vars

\* The event loop runs a task that can run, and a subprocess that is not
\* killed goes on to its last put.
StreamLive ==
    /\ StreamSpec
    /\ \A i \in Streams :
         /\ WF_vars(StreamConsume(i))
         /\ WF_vars(StreamBreak(i))
         /\ WF_vars(WorkerComplete(i))

\* C27: across any interleaving of generate_completion_stream invocations
\* at most one streaming subprocess is alive at any time, also when an
\* earlier invocation finishes and resets the global handle while a later
\* stream is still running.
C27_OneStreamProcess ==
    Cardinality({i \in Streams : is_alive(stream, i)}) <= 1

\* C28: every generate_completion_stream invocation eventually leaves its
\* token loop and finishes, also when its subprocess was terminated by a
\* later invocation's stop_current_stream or died before it wrote the
\* sentinel.
C28_StreamsLeaveLoop ==
    \A i \in Streams : (stream.inv[i].pc = "loop") ~> (stream.inv[i].pc = "done")

====
